---- MODULE Spec2Model ----
(***************************************************************************)
(* Model of the two hand-written Solana programs of the repository:        *)
(*   contracts/solana/token/src/lib.rs  - the fungible-token ledger        *)
(*   contracts/solana/nft/lib.rs        - the NFT registry                 *)
(*                                                                         *)
(* Account data is modelled as the byte buffers the programs read and      *)
(* write.  A u64 is four 16-bit limbs, least significant first, so that    *)
(* 2^64-1 is representable and to_le_bytes / from_le_bytes are real        *)
(* conversions.  A Pubkey is its 32 bytes.                                 *)
(*                                                                         *)
(* One invocation is one action (Invoke / InvokeNft): it runs the whole    *)
(* process_instruction on the buffers and records the call, its result and *)
(* the buffers as they were before the call.  Return is the invocation     *)
(* handing control back to the host: it forgets the recorded call and      *)
(* keeps the buffers as the handler left them.                             *)
(***************************************************************************)
EXTENDS Integers, Sequences, FiniteSets, TLC

\* -------------------------------------------------------------------------
\* Bounds of the model
\* -------------------------------------------------------------------------

\* Number of invocations that succeed or write to a buffer in one run
\* (invocations that fail without writing are not limited).
MaxApplied == 3

\* -------------------------------------------------------------------------
\* Bytes, u64, Pubkey
\* -------------------------------------------------------------------------

Zeroes(n) == [i \in 1..n |-> 0]

\* dst with src copied into it from 0-based offset off (copy_from_slice on a sub-slice)
CopyAt(dst, off, src) ==
    [i \in 1..Len(dst) |-> IF i > off /\ i <= off + Len(src) THEN src[i - off] ELSE dst[i]]

\* the 0-based half-open byte range src[from..to]
Slice(src, from, to) == SubSeq(src, from + 1, to)

\* A u64 as four 16-bit limbs, least significant first.
U64Of(n) == <<n, 0, 0, 0>>
U64Zero == U64Of(0)
U64Max == <<65535, 65535, 65535, 65535>>

to_le_bytes(v) ==
    [i \in 1..8 |-> IF i % 2 = 1 THEN v[(i + 1) \div 2] % 256 ELSE v[i \div 2] \div 256]

from_le_bytes(b) ==
    [j \in 1..4 |-> b[2 * j - 1] + 256 * b[2 * j]]

\* u64::checked_add: None on overflow
checked_add(a, b) ==
    LET s1 == a[1] + b[1]
        s2 == a[2] + b[2] + (s1 \div 65536)
        s3 == a[3] + b[3] + (s2 \div 65536)
        s4 == a[4] + b[4] + (s3 \div 65536)
    IN  IF s4 \div 65536 # 0
        THEN [some |-> FALSE, val |-> U64Zero]
        ELSE [some |-> TRUE, val |-> <<s1 % 65536, s2 % 65536, s3 % 65536, s4 % 65536>>]

\* Mutant of U64Gt: compares the most significant limbs only
U64Gt_TopLimb(a, b) == a[4] > b[4]

\* a > b on u64
U64Gt(a, b) ==
    \/ a[4] > b[4]
    \/ a[4] = b[4] /\ a[3] > b[3]
    \/ a[4] = b[4] /\ a[3] = b[3] /\ a[2] > b[2]
    \/ a[4] = b[4] /\ a[3] = b[3] /\ a[2] = b[2] /\ a[1] > b[1]

\* u64::checked_sub: None on underflow
checked_sub(a, b) ==
    LET d1 == a[1] - b[1]
        w1 == IF d1 < 0 THEN 1 ELSE 0
        d2 == a[2] - b[2] - w1
        w2 == IF d2 < 0 THEN 1 ELSE 0
        d3 == a[3] - b[3] - w2
        w3 == IF d3 < 0 THEN 1 ELSE 0
        d4 == a[4] - b[4] - w3
    IN  IF d4 < 0
        THEN [some |-> FALSE, val |-> U64Zero]
        ELSE [some |-> TRUE,
              val |-> <<d1 + 65536 * w1, d2 + 65536 * w2, d3 + 65536 * w3, d4>>]

\* A Pubkey is 32 bytes; the keys of the model repeat one byte.
PubkeyOf(n) == [i \in 1..32 |-> n]


\* -------------------------------------------------------------------------
\* The accounts the host presents (static part: key, owning program, lamports)
\* -------------------------------------------------------------------------

TokenProgramId == PubkeyOf(100)
NftProgramId == PubkeyOf(101)
SystemProgramId == PubkeyOf(0)
OtherProgramId == PubkeyOf(102)
SysvarRentId == PubkeyOf(103)

Wallets == {"alice", "bob"}
MintSlots == {"mint", "mint2", "mintPoor"}
TokenSlots == {"tokA", "tokB", "tokU", "foreign"}
NftSlots == {"nft"}
AccountIds == Wallets \cup MintSlots \cup TokenSlots \cup NftSlots \cup {"rent"}

\* AccountInfo.key
KeyOf(id) ==
    CASE id = "alice" -> PubkeyOf(1)
      [] id = "bob" -> PubkeyOf(2)
      [] id = "mint" -> PubkeyOf(10)
      [] id = "mint2" -> PubkeyOf(11)
      [] id = "mintPoor" -> PubkeyOf(12)
      [] id = "tokA" -> PubkeyOf(20)
      [] id = "tokB" -> PubkeyOf(21)
      [] id = "tokU" -> PubkeyOf(22)
      [] id = "foreign" -> PubkeyOf(23)
      [] id = "nft" -> PubkeyOf(30)
      [] id = "rent" -> SysvarRentId

\* AccountInfo.owner: the program that owns the slot
OwnerOf(id) ==
    IF id \in (MintSlots \cup TokenSlots) \ {"foreign"} THEN TokenProgramId
    ELSE IF id \in NftSlots THEN NftProgramId
    ELSE IF id = "foreign" THEN OtherProgramId
    ELSE SystemProgramId

\* Rent::minimum_balance with the default rent parameters of the host
RentMinimumBalance(data_len) == (128 + data_len) * 3480 * 2

\* AccountInfo.lamports(): every slot is funded for its size except mintPoor
LamportsOf(id, data_len) ==
    IF id = "mintPoor" THEN 0 ELSE RentMinimumBalance(data_len)

\* -------------------------------------------------------------------------
\* Token program: records and the Pack codec
\* -------------------------------------------------------------------------

\* size_of of a #[repr(C)] struct: fields are <<size, align>> in declaration order
AlignUp(off, align) == ((off + align - 1) \div align) * align

RECURSIVE ReprCEnd(_, _)
ReprCEnd(fields, off) ==
    IF fields = <<>> THEN off
    ELSE ReprCEnd(Tail(fields), AlignUp(off, Head(fields)[2]) + Head(fields)[1])

MaxAlign(fields) ==
    CHOOSE a \in {fields[i][2] : i \in 1..Len(fields)} :
        \A i \in 1..Len(fields) : fields[i][2] <= a

size_of(fields) == AlignUp(ReprCEnd(fields, 0), MaxAlign(fields))

LayoutBool == <<1, 1>>
LayoutU8 == <<1, 1>>
LayoutPubkey == <<32, 1>>
LayoutU64 == <<8, 8>>

\* impl Pack for TokenAccount: const LEN = size_of::<TokenAccount>()
TokenAccountLEN == size_of(<<LayoutBool, LayoutPubkey, LayoutU64>>)

\* impl Pack for Mint: const LEN = size_of::<Mint>()
MintLEN == size_of(<<LayoutBool, LayoutPubkey, LayoutU64, LayoutU8>>)

\* TokenAccount_unpack_from_slice reading the amount one byte early
TokenAccount_unpack_from_slice_AmountAt32(src) ==
    [is_initialized |-> src[1] # 0,
     owner |-> Slice(src, 1, 33),
     amount |-> from_le_bytes(Slice(src, 32, 40))]

TokenAccount_unpack_from_slice(src) ==
    [is_initialized |-> src[1] # 0,
     owner |-> Slice(src, 1, 33),
     amount |-> from_le_bytes(Slice(src, 33, 41))]

TokenAccount_pack_into_slice(self, dst) ==
    LET d0 == CopyAt(dst, 0, <<IF self.is_initialized THEN 1 ELSE 0>>)
        d1 == CopyAt(d0, 1, self.owner)
    IN  CopyAt(d1, 33, to_le_bytes(self.amount))

Mint_unpack_from_slice(src) ==
    [is_initialized |-> src[1] # 0,
     mint_authority |-> Slice(src, 1, 33),
     supply |-> from_le_bytes(Slice(src, 33, 41)),
     decimals |-> src[42]]

\* Mutant of Mint_pack_into_slice: the supply is not written
Mint_pack_into_slice_NoSupply(self, dst) ==
    LET d0 == CopyAt(dst, 0, <<IF self.is_initialized THEN 1 ELSE 0>>)
        d1 == CopyAt(d0, 1, self.mint_authority)
    IN  CopyAt(d1, 41, <<self.decimals>>)

Mint_pack_into_slice(self, dst) ==
    LET d0 == CopyAt(dst, 0, <<IF self.is_initialized THEN 1 ELSE 0>>)
        d1 == CopyAt(d0, 1, self.mint_authority)
        d2 == CopyAt(d1, 33, to_le_bytes(self.supply))
    IN  CopyAt(d2, 41, <<self.decimals>>)

DefaultTokenAccount == [is_initialized |-> FALSE, owner |-> PubkeyOf(0), amount |-> U64Zero]
DefaultMint ==
    [is_initialized |-> FALSE, mint_authority |-> PubkeyOf(0), supply |-> U64Zero, decimals |-> 0]

\* Pack::unpack_unchecked: the length must be LEN exactly
TokenAccount_unpack_unchecked(input) ==
    IF Len(input) # TokenAccountLEN
    THEN [err |-> "InvalidAccountData", val |-> DefaultTokenAccount]
    ELSE [err |-> "Ok", val |-> TokenAccount_unpack_from_slice(input)]

Mint_unpack_unchecked(input) ==
    IF Len(input) # MintLEN
    THEN [err |-> "InvalidAccountData", val |-> DefaultMint]
    ELSE [err |-> "Ok", val |-> Mint_unpack_from_slice(input)]

\* Pack::unpack: unpack_unchecked, then the record must be initialized
\* Mutant of TokenAccount_unpack: the record need not be initialized
TokenAccount_unpack_NoInitCheck(input) == TokenAccount_unpack_unchecked(input)

TokenAccount_unpack(input) ==
    LET r == TokenAccount_unpack_unchecked(input)
    IN  IF r.err # "Ok" THEN r
        ELSE IF r.val.is_initialized THEN r
        ELSE [err |-> "UninitializedAccount", val |-> r.val]

Mint_unpack(input) ==
    LET r == Mint_unpack_unchecked(input)
    IN  IF r.err # "Ok" THEN r
        ELSE IF r.val.is_initialized THEN r
        ELSE [err |-> "UninitializedAccount", val |-> r.val]

\* Pack::pack: the destination must be LEN bytes exactly
TokenAccount_pack(src, dst) ==
    IF Len(dst) # TokenAccountLEN
    THEN [err |-> "InvalidAccountData", buf |-> dst]
    ELSE [err |-> "Ok", buf |-> TokenAccount_pack_into_slice(src, dst)]

Mint_pack(src, dst) ==
    IF Len(dst) # MintLEN
    THEN [err |-> "InvalidAccountData", buf |-> dst]
    ELSE [err |-> "Ok", buf |-> Mint_pack_into_slice(src, dst)]


\* -------------------------------------------------------------------------
\* Token program: the handlers.  d is the memory of account buffers
\* (account id -> bytes), accounts the AccountInfo list of the call as a
\* sequence of [id, is_signer].  A handler yields its result and the buffers
\* as it leaves them.
\* -------------------------------------------------------------------------

\* res is "Ok", the kind of the ProgramError returned, or "Panic" when the
\* handler aborts (a second borrow_mut of a buffer that is still borrowed).
Outcome(res, d) == [result |-> res, data |-> d]

\* Rent::from_account_info(..)?.is_exempt(lamports, data_len), as an error kind or "Ok"
RentCheck(d, slot, rent_info) ==
    IF KeyOf(rent_info) # SysvarRentId THEN "InvalidArgument"
    ELSE IF LamportsOf(slot, Len(d[slot])) < RentMinimumBalance(Len(d[slot]))
         THEN "AccountNotRentExempt"
    ELSE "Ok"

\* Mutant of process_initialize_mint: no test of is_initialized
process_initialize_mint_NoInitCheck(d, accounts, decimals, mint_authority, program_id) ==
    IF Len(accounts) < 2 THEN Outcome("NotEnoughAccountKeys", d)
    ELSE
    LET mint_info == accounts[1].id
        rent_info == accounts[2].id
        rent == RentCheck(d, mint_info, rent_info)
        unpacked == Mint_unpack_unchecked(d[mint_info])
        mint == [is_initialized |-> TRUE,
                 mint_authority |-> mint_authority,
                 supply |-> U64Zero,
                 decimals |-> decimals]
        packed == Mint_pack(mint, d[mint_info])
    IN  IF OwnerOf(mint_info) # program_id THEN Outcome("IncorrectProgramId", d)
        ELSE IF rent # "Ok" THEN Outcome(rent, d)
        ELSE IF unpacked.err # "Ok" THEN Outcome(unpacked.err, d)
        ELSE IF packed.err # "Ok" THEN Outcome(packed.err, d)
        ELSE Outcome("Ok", [d EXCEPT ![mint_info] = packed.buf])

process_initialize_mint(d, accounts, decimals, mint_authority, program_id) ==
    IF Len(accounts) < 2 THEN Outcome("NotEnoughAccountKeys", d)
    ELSE
    LET mint_info == accounts[1].id
        rent_info == accounts[2].id
        rent == RentCheck(d, mint_info, rent_info)
        unpacked == Mint_unpack_unchecked(d[mint_info])
        mint == [is_initialized |-> TRUE,
                 mint_authority |-> mint_authority,
                 supply |-> U64Zero,
                 decimals |-> decimals]
        packed == Mint_pack(mint, d[mint_info])
    IN  IF OwnerOf(mint_info) # program_id THEN Outcome("IncorrectProgramId", d)
        ELSE IF rent # "Ok" THEN Outcome(rent, d)
        ELSE IF unpacked.err # "Ok" THEN Outcome(unpacked.err, d)
        ELSE IF unpacked.val.is_initialized THEN Outcome("AccountAlreadyInitialized", d)
        ELSE IF packed.err # "Ok" THEN Outcome(packed.err, d)
        ELSE Outcome("Ok", [d EXCEPT ![mint_info] = packed.buf])

\* Mutant of process_mint_to: the Mint is packed before the destination is decoded
process_mint_to_EagerPack(d, accounts, amount, program_id) ==
    IF Len(accounts) < 3 THEN Outcome("NotEnoughAccountKeys", d)
    ELSE
    LET mint_info == accounts[1].id
        destination_info == accounts[2].id
        authority_info == accounts[3].id
        mint == Mint_unpack(d[mint_info])
        destination == TokenAccount_unpack(d[destination_info])
        supply == checked_add(mint.val.supply, amount)
        dest_amount == checked_add(destination.val.amount, amount)
        mint_packed == Mint_pack([mint.val EXCEPT !.supply = supply.val], d[mint_info])
        d1 == [d EXCEPT ![mint_info] = mint_packed.buf]
        dest_packed ==
            TokenAccount_pack([destination.val EXCEPT !.amount = dest_amount.val],
                              d1[destination_info])
    IN  IF OwnerOf(mint_info) # program_id \/ OwnerOf(destination_info) # program_id
        THEN Outcome("IncorrectProgramId", d)
        ELSE IF mint.err # "Ok" THEN Outcome(mint.err, d)
        ELSE IF KeyOf(authority_info) # mint.val.mint_authority
             THEN Outcome("InvalidAccountData", d)
        \* destination_info.data.borrow_mut() while mint_data is still borrowed
        ELSE IF destination_info = mint_info THEN Outcome("Panic", d)
        ELSE IF ~supply.some THEN Outcome("InvalidArgument", d)
        ELSE IF mint_packed.err # "Ok" THEN Outcome(mint_packed.err, d)
        ELSE IF destination.err # "Ok" THEN Outcome(destination.err, d1)
        ELSE IF ~dest_amount.some THEN Outcome("InvalidArgument", d1)
        ELSE IF dest_packed.err # "Ok" THEN Outcome(dest_packed.err, d1)
        ELSE Outcome("Ok", [d1 EXCEPT ![destination_info] = dest_packed.buf])

\* process_mint_to that adds to destination.amount without the overflow check
process_mint_to_UncheckedDestination(d, accounts, amount, program_id) ==
    IF Len(accounts) < 3 THEN Outcome("NotEnoughAccountKeys", d)
    ELSE
    LET mint_info == accounts[1].id
        destination_info == accounts[2].id
        authority_info == accounts[3].id
        mint == Mint_unpack(d[mint_info])
        destination == TokenAccount_unpack(d[destination_info])
        supply == checked_add(mint.val.supply, amount)
        dest_amount == checked_add(destination.val.amount, amount)
        mint_packed == Mint_pack([mint.val EXCEPT !.supply = supply.val], d[mint_info])
        d1 == [d EXCEPT ![mint_info] = mint_packed.buf]
        dest_packed ==
            TokenAccount_pack([destination.val EXCEPT !.amount = dest_amount.val],
                              d1[destination_info])
    IN  IF OwnerOf(mint_info) # program_id \/ OwnerOf(destination_info) # program_id
        THEN Outcome("IncorrectProgramId", d)
        ELSE IF mint.err # "Ok" THEN Outcome(mint.err, d)
        ELSE IF KeyOf(authority_info) # mint.val.mint_authority
             THEN Outcome("InvalidAccountData", d)
        \* destination_info.data.borrow_mut() while mint_data is still borrowed
        ELSE IF destination_info = mint_info THEN Outcome("Panic", d)
        ELSE IF destination.err # "Ok" THEN Outcome(destination.err, d)
        ELSE IF ~supply.some THEN Outcome("InvalidArgument", d)
        ELSE IF mint_packed.err # "Ok" THEN Outcome(mint_packed.err, d)
        ELSE IF dest_packed.err # "Ok" THEN Outcome(dest_packed.err, d1)
        ELSE Outcome("Ok", [d1 EXCEPT ![destination_info] = dest_packed.buf])

process_mint_to(d, accounts, amount, program_id) ==
    IF Len(accounts) < 3 THEN Outcome("NotEnoughAccountKeys", d)
    ELSE
    LET mint_info == accounts[1].id
        destination_info == accounts[2].id
        authority_info == accounts[3].id
        mint == Mint_unpack(d[mint_info])
        destination == TokenAccount_unpack(d[destination_info])
        supply == checked_add(mint.val.supply, amount)
        dest_amount == checked_add(destination.val.amount, amount)
        mint_packed == Mint_pack([mint.val EXCEPT !.supply = supply.val], d[mint_info])
        d1 == [d EXCEPT ![mint_info] = mint_packed.buf]
        dest_packed ==
            TokenAccount_pack([destination.val EXCEPT !.amount = dest_amount.val],
                              d1[destination_info])
    IN  IF OwnerOf(mint_info) # program_id \/ OwnerOf(destination_info) # program_id
        THEN Outcome("IncorrectProgramId", d)
        ELSE IF mint.err # "Ok" THEN Outcome(mint.err, d)
        ELSE IF KeyOf(authority_info) # mint.val.mint_authority
             THEN Outcome("InvalidAccountData", d)
        \* destination_info.data.borrow_mut() while mint_data is still borrowed
        ELSE IF destination_info = mint_info THEN Outcome("Panic", d)
        ELSE IF destination.err # "Ok" THEN Outcome(destination.err, d)
        ELSE IF ~supply.some THEN Outcome("InvalidArgument", d)
        ELSE IF ~dest_amount.some THEN Outcome("InvalidArgument", d)
        ELSE IF mint_packed.err # "Ok" THEN Outcome(mint_packed.err, d)
        ELSE IF dest_packed.err # "Ok" THEN Outcome(dest_packed.err, d1)
        ELSE Outcome("Ok", [d1 EXCEPT ![destination_info] = dest_packed.buf])

\* process_transfer that checks the owner of the source slot only
process_transfer_SourceOwnerOnly(d, accounts, amount, program_id) ==
    IF Len(accounts) < 3 THEN Outcome("NotEnoughAccountKeys", d)
    ELSE
    LET source_info == accounts[1].id
        destination_info == accounts[2].id
        authority_info == accounts[3].id
        source == TokenAccount_unpack(d[source_info])
        destination == TokenAccount_unpack(d[destination_info])
        src_amount == checked_sub(source.val.amount, amount)
        dest_amount == checked_add(destination.val.amount, amount)
        src_packed ==
            TokenAccount_pack([source.val EXCEPT !.amount = src_amount.val], d[source_info])
        d1 == [d EXCEPT ![source_info] = src_packed.buf]
        dest_packed ==
            TokenAccount_pack([destination.val EXCEPT !.amount = dest_amount.val],
                              d1[destination_info])
    IN  IF OwnerOf(source_info) # program_id
        THEN Outcome("IncorrectProgramId", d)
        ELSE IF source.err # "Ok" THEN Outcome(source.err, d)
        ELSE IF KeyOf(authority_info) # source.val.owner
             THEN Outcome("InvalidAccountData", d)
        \* destination_info.data.borrow_mut() while source_data is still borrowed
        ELSE IF destination_info = source_info THEN Outcome("Panic", d)
        ELSE IF destination.err # "Ok" THEN Outcome(destination.err, d)
        ELSE IF U64Gt(amount, source.val.amount) THEN Outcome("InsufficientFunds", d)
        ELSE IF ~src_amount.some THEN Outcome("InvalidArgument", d)
        ELSE IF ~dest_amount.some THEN Outcome("InvalidArgument", d)
        ELSE IF src_packed.err # "Ok" THEN Outcome(src_packed.err, d)
        ELSE IF dest_packed.err # "Ok" THEN Outcome(dest_packed.err, d1)
        ELSE Outcome("Ok", [d1 EXCEPT ![destination_info] = dest_packed.buf])

\* process_transfer that goes on when source and destination are the same slot
process_transfer_SameSlotAllowed(d, accounts, amount, program_id) ==
    IF Len(accounts) < 3 THEN Outcome("NotEnoughAccountKeys", d)
    ELSE
    LET source_info == accounts[1].id
        destination_info == accounts[2].id
        authority_info == accounts[3].id
        source == TokenAccount_unpack(d[source_info])
        destination == TokenAccount_unpack(d[destination_info])
        src_amount == checked_sub(source.val.amount, amount)
        dest_amount == checked_add(destination.val.amount, amount)
        src_packed ==
            TokenAccount_pack([source.val EXCEPT !.amount = src_amount.val], d[source_info])
        d1 == [d EXCEPT ![source_info] = src_packed.buf]
        dest_packed ==
            TokenAccount_pack([destination.val EXCEPT !.amount = dest_amount.val],
                              d1[destination_info])
    IN  IF OwnerOf(source_info) # program_id \/ OwnerOf(destination_info) # program_id
        THEN Outcome("IncorrectProgramId", d)
        ELSE IF source.err # "Ok" THEN Outcome(source.err, d)
        ELSE IF KeyOf(authority_info) # source.val.owner
             THEN Outcome("InvalidAccountData", d)
        ELSE IF destination.err # "Ok" THEN Outcome(destination.err, d)
        ELSE IF U64Gt(amount, source.val.amount) THEN Outcome("InsufficientFunds", d)
        ELSE IF ~src_amount.some THEN Outcome("InvalidArgument", d)
        ELSE IF ~dest_amount.some THEN Outcome("InvalidArgument", d)
        ELSE IF src_packed.err # "Ok" THEN Outcome(src_packed.err, d)
        ELSE IF dest_packed.err # "Ok" THEN Outcome(dest_packed.err, d1)
        ELSE Outcome("Ok", [d1 EXCEPT ![destination_info] = dest_packed.buf])

process_transfer(d, accounts, amount, program_id) ==
    IF Len(accounts) < 3 THEN Outcome("NotEnoughAccountKeys", d)
    ELSE
    LET source_info == accounts[1].id
        destination_info == accounts[2].id
        authority_info == accounts[3].id
        source == TokenAccount_unpack(d[source_info])
        destination == TokenAccount_unpack(d[destination_info])
        src_amount == checked_sub(source.val.amount, amount)
        dest_amount == checked_add(destination.val.amount, amount)
        src_packed ==
            TokenAccount_pack([source.val EXCEPT !.amount = src_amount.val], d[source_info])
        d1 == [d EXCEPT ![source_info] = src_packed.buf]
        dest_packed ==
            TokenAccount_pack([destination.val EXCEPT !.amount = dest_amount.val],
                              d1[destination_info])
    IN  IF OwnerOf(source_info) # program_id \/ OwnerOf(destination_info) # program_id
        THEN Outcome("IncorrectProgramId", d)
        ELSE IF source.err # "Ok" THEN Outcome(source.err, d)
        ELSE IF KeyOf(authority_info) # source.val.owner
             THEN Outcome("InvalidAccountData", d)
        \* destination_info.data.borrow_mut() while source_data is still borrowed
        ELSE IF destination_info = source_info THEN Outcome("Panic", d)
        ELSE IF destination.err # "Ok" THEN Outcome(destination.err, d)
        ELSE IF U64Gt(amount, source.val.amount) THEN Outcome("InsufficientFunds", d)
        ELSE IF ~src_amount.some THEN Outcome("InvalidArgument", d)
        ELSE IF ~dest_amount.some THEN Outcome("InvalidArgument", d)
        ELSE IF src_packed.err # "Ok" THEN Outcome(src_packed.err, d)
        ELSE IF dest_packed.err # "Ok" THEN Outcome(dest_packed.err, d1)
        ELSE Outcome("Ok", [d1 EXCEPT ![destination_info] = dest_packed.buf])

\* Mutant of process_burn: the authority's key is not compared with the owner
process_burn_NoAuthority(d, accounts, amount, program_id) ==
    IF Len(accounts) < 3 THEN Outcome("NotEnoughAccountKeys", d)
    ELSE
    LET source_info == accounts[1].id
        mint_info == accounts[2].id
        authority_info == accounts[3].id
        source == TokenAccount_unpack(d[source_info])
        mint == Mint_unpack(d[mint_info])
        src_amount == checked_sub(source.val.amount, amount)
        supply == checked_sub(mint.val.supply, amount)
        src_packed ==
            TokenAccount_pack([source.val EXCEPT !.amount = src_amount.val], d[source_info])
        d1 == [d EXCEPT ![source_info] = src_packed.buf]
        mint_packed == Mint_pack([mint.val EXCEPT !.supply = supply.val], d1[mint_info])
    IN  IF OwnerOf(source_info) # program_id \/ OwnerOf(mint_info) # program_id
        THEN Outcome("IncorrectProgramId", d)
        ELSE IF source.err # "Ok" THEN Outcome(source.err, d)
        \* mint_info.data.borrow_mut() while source_data is still borrowed
        ELSE IF mint_info = source_info THEN Outcome("Panic", d)
        ELSE IF mint.err # "Ok" THEN Outcome(mint.err, d)
        ELSE IF U64Gt(amount, source.val.amount) THEN Outcome("InsufficientFunds", d)
        ELSE IF ~src_amount.some THEN Outcome("InvalidArgument", d)
        ELSE IF ~supply.some THEN Outcome("InvalidArgument", d)
        ELSE IF src_packed.err # "Ok" THEN Outcome(src_packed.err, d)
        ELSE IF mint_packed.err # "Ok" THEN Outcome(mint_packed.err, d1)
        ELSE Outcome("Ok", [d1 EXCEPT ![mint_info] = mint_packed.buf])

\* process_burn that debits the source and leaves the supply of the Mint
process_burn_KeepsSupply(d, accounts, amount, program_id) ==
    IF Len(accounts) < 3 THEN Outcome("NotEnoughAccountKeys", d)
    ELSE
    LET source_info == accounts[1].id
        mint_info == accounts[2].id
        authority_info == accounts[3].id
        source == TokenAccount_unpack(d[source_info])
        mint == Mint_unpack(d[mint_info])
        src_amount == checked_sub(source.val.amount, amount)
        supply == checked_sub(mint.val.supply, amount)
        src_packed ==
            TokenAccount_pack([source.val EXCEPT !.amount = src_amount.val], d[source_info])
        d1 == [d EXCEPT ![source_info] = src_packed.buf]
        mint_packed == Mint_pack(mint.val, d1[mint_info])
    IN  IF OwnerOf(source_info) # program_id \/ OwnerOf(mint_info) # program_id
        THEN Outcome("IncorrectProgramId", d)
        ELSE IF source.err # "Ok" THEN Outcome(source.err, d)
        ELSE IF KeyOf(authority_info) # source.val.owner
             THEN Outcome("InvalidAccountData", d)
        \* mint_info.data.borrow_mut() while source_data is still borrowed
        ELSE IF mint_info = source_info THEN Outcome("Panic", d)
        ELSE IF mint.err # "Ok" THEN Outcome(mint.err, d)
        ELSE IF U64Gt(amount, source.val.amount) THEN Outcome("InsufficientFunds", d)
        ELSE IF ~src_amount.some THEN Outcome("InvalidArgument", d)
        ELSE IF ~supply.some THEN Outcome("InvalidArgument", d)
        ELSE IF src_packed.err # "Ok" THEN Outcome(src_packed.err, d)
        ELSE IF mint_packed.err # "Ok" THEN Outcome(mint_packed.err, d1)
        ELSE Outcome("Ok", [d1 EXCEPT ![mint_info] = mint_packed.buf])

process_burn(d, accounts, amount, program_id) ==
    IF Len(accounts) < 3 THEN Outcome("NotEnoughAccountKeys", d)
    ELSE
    LET source_info == accounts[1].id
        mint_info == accounts[2].id
        authority_info == accounts[3].id
        source == TokenAccount_unpack(d[source_info])
        mint == Mint_unpack(d[mint_info])
        src_amount == checked_sub(source.val.amount, amount)
        supply == checked_sub(mint.val.supply, amount)
        src_packed ==
            TokenAccount_pack([source.val EXCEPT !.amount = src_amount.val], d[source_info])
        d1 == [d EXCEPT ![source_info] = src_packed.buf]
        mint_packed == Mint_pack([mint.val EXCEPT !.supply = supply.val], d1[mint_info])
    IN  IF OwnerOf(source_info) # program_id \/ OwnerOf(mint_info) # program_id
        THEN Outcome("IncorrectProgramId", d)
        ELSE IF source.err # "Ok" THEN Outcome(source.err, d)
        ELSE IF KeyOf(authority_info) # source.val.owner
             THEN Outcome("InvalidAccountData", d)
        \* mint_info.data.borrow_mut() while source_data is still borrowed
        ELSE IF mint_info = source_info THEN Outcome("Panic", d)
        ELSE IF mint.err # "Ok" THEN Outcome(mint.err, d)
        ELSE IF U64Gt(amount, source.val.amount) THEN Outcome("InsufficientFunds", d)
        ELSE IF ~src_amount.some THEN Outcome("InvalidArgument", d)
        ELSE IF ~supply.some THEN Outcome("InvalidArgument", d)
        ELSE IF src_packed.err # "Ok" THEN Outcome(src_packed.err, d)
        ELSE IF mint_packed.err # "Ok" THEN Outcome(mint_packed.err, d1)
        ELSE Outcome("Ok", [d1 EXCEPT ![mint_info] = mint_packed.buf])

\* the decoder taking every tag above 2 for Burn
DecodeTokenInstruction_BurnByDefault(instruction_data) ==
    IF instruction_data = <<>> THEN [tag |-> "Invalid"]
    ELSE IF instruction_data[1] = 0
    THEN IF Len(instruction_data) < 34 THEN [tag |-> "Invalid"]
         ELSE [tag |-> "InitializeMint",
               decimals |-> instruction_data[2],
               mint_authority |-> Slice(instruction_data, 2, 34)]
    ELSE IF Len(instruction_data) < 9 THEN [tag |-> "Invalid"]
    ELSE [tag |-> CASE instruction_data[1] = 1 -> "MintTo"
                    [] instruction_data[1] = 2 -> "Transfer"
                    [] OTHER -> "Burn",
          amount |-> from_le_bytes(Slice(instruction_data, 1, 9))]

\* The instruction decoder's result: the tag names the operation
DecodeTokenInstruction(instruction_data) ==
    IF instruction_data = <<>> THEN [tag |-> "Invalid"]
    ELSE IF instruction_data[1] = 0
    THEN IF Len(instruction_data) < 34 THEN [tag |-> "Invalid"]
         ELSE [tag |-> "InitializeMint",
               decimals |-> instruction_data[2],
               mint_authority |-> Slice(instruction_data, 2, 34)]
    ELSE IF instruction_data[1] \in {1, 2, 3}
    THEN IF Len(instruction_data) < 9 THEN [tag |-> "Invalid"]
         ELSE [tag |-> CASE instruction_data[1] = 1 -> "MintTo"
                         [] instruction_data[1] = 2 -> "Transfer"
                         [] instruction_data[1] = 3 -> "Burn",
               amount |-> from_le_bytes(Slice(instruction_data, 1, 9))]
    ELSE [tag |-> "Invalid"]

process_instruction(program_id, d, accounts, instruction_data) ==
    LET instruction == DecodeTokenInstruction(instruction_data)
    IN  CASE instruction.tag = "Invalid" -> Outcome("InvalidInstructionData", d)
          [] instruction.tag = "InitializeMint" ->
                process_initialize_mint(d, accounts, instruction.decimals,
                                        instruction.mint_authority, program_id)
          [] instruction.tag = "MintTo" ->
                process_mint_to(d, accounts, instruction.amount, program_id)
          [] instruction.tag = "Transfer" ->
                process_transfer(d, accounts, instruction.amount, program_id)
          [] instruction.tag = "Burn" ->
                process_burn(d, accounts, instruction.amount, program_id)


\* -------------------------------------------------------------------------
\* NFT program: the borsh codec of NFTMetadata and NFTInstruction
\* -------------------------------------------------------------------------

U32LE(n) == <<n % 256, (n \div 256) % 256, (n \div 65536) % 256, n \div 16777216>>

BorshString(str) == U32LE(Len(str)) \o str
BorshBool(b) == <<IF b THEN 1 ELSE 0>>
BorshOption(opt) == IF opt.some THEN <<1>> \o BorshString(opt.val) ELSE <<0>>

\* #[derive(BorshSerialize)] for NFTMetadata: the fields in declaration order
NFTMetadata_bytes(m) ==
    BorshString(m.name) \o BorshString(m.symbol) \o BorshString(m.uri)
    \o m.creator \o <<m.royalty_percentage>> \o BorshBool(m.is_mutable)

\* serialize(&mut &mut buf[..]): Write for &mut [u8] copies what fits and
\* fails once the slice is full
SerializeInto(bytes, buf) ==
    IF Len(bytes) <= Len(buf)
    THEN [err |-> "Ok", buf |-> CopyAt(buf, 0, bytes)]
    ELSE [err |-> "BorshIoError", buf |-> SubSeq(bytes, 1, Len(buf))]

\* Readers: buf is read from 0-based position pos; each yields ok, the value
\* and the position after it.
ReadFail == [ok |-> FALSE, val |-> <<>>, pos |-> 0]

ReadU8(buf, pos) ==
    IF pos + 1 > Len(buf) THEN ReadFail
    ELSE [ok |-> TRUE, val |-> buf[pos + 1], pos |-> pos + 1]

ReadBool(buf, pos) ==
    IF pos + 1 > Len(buf) THEN ReadFail
    ELSE IF buf[pos + 1] > 1 THEN ReadFail
    ELSE [ok |-> TRUE, val |-> (buf[pos + 1] = 1), pos |-> pos + 1]

ReadPubkey(buf, pos) ==
    IF pos + 32 > Len(buf) THEN ReadFail
    ELSE [ok |-> TRUE, val |-> Slice(buf, pos, pos + 32), pos |-> pos + 32]

ReadString(buf, pos) ==
    IF pos + 4 > Len(buf) THEN ReadFail
    ELSE
    LET len == buf[pos + 1] + 256 * buf[pos + 2] + 65536 * buf[pos + 3]
               + 16777216 * buf[pos + 4]
    IN  IF buf[pos + 2] # 0 \/ buf[pos + 3] # 0 \/ buf[pos + 4] # 0 THEN ReadFail
        ELSE IF pos + 4 + len > Len(buf) THEN ReadFail
        ELSE [ok |-> TRUE, val |-> Slice(buf, pos + 4, pos + 4 + len), pos |-> pos + 4 + len]

None == [some |-> FALSE, val |-> <<>>]
Some(v) == [some |-> TRUE, val |-> v]

ReadOptionString(buf, pos) ==
    IF pos + 1 > Len(buf) THEN ReadFail
    ELSE IF buf[pos + 1] = 0 THEN [ok |-> TRUE, val |-> None, pos |-> pos + 1]
    ELSE IF buf[pos + 1] = 1
    THEN LET str == ReadString(buf, pos + 1)
         IN  IF str.ok THEN [ok |-> TRUE, val |-> Some(str.val), pos |-> str.pos]
             ELSE ReadFail
    ELSE ReadFail

DefaultNFTMetadata ==
    [name |-> <<>>, symbol |-> <<>>, uri |-> <<>>, creator |-> PubkeyOf(0),
     royalty_percentage |-> 0, is_mutable |-> FALSE]

\* NFTMetadata::try_from_slice: every field in order, then no byte may be left
NFTMetadata_try_from_slice(buf) ==
    LET name == ReadString(buf, 0)
        symbol == ReadString(buf, name.pos)
        uri == ReadString(buf, symbol.pos)
        creator == ReadPubkey(buf, uri.pos)
        royalty == ReadU8(buf, creator.pos)
        mutable == ReadBool(buf, royalty.pos)
    IN  IF ~name.ok \/ ~symbol.ok \/ ~uri.ok \/ ~creator.ok \/ ~royalty.ok \/ ~mutable.ok
        THEN [err |-> "BorshIoError", val |-> DefaultNFTMetadata]
        ELSE IF mutable.pos # Len(buf)
        THEN [err |-> "BorshIoError", val |-> DefaultNFTMetadata]
        ELSE [err |-> "Ok",
              val |-> [name |-> name.val, symbol |-> symbol.val, uri |-> uri.val,
                       creator |-> creator.val, royalty_percentage |-> royalty.val,
                       is_mutable |-> mutable.val]]

\* NFTInstruction::try_from_slice: a one-byte variant index, the variant's
\* fields, then no byte may be left
NFTInstruction_try_from_slice(buf) ==
    IF buf = <<>> THEN [tag |-> "Invalid"]
    ELSE IF buf[1] = 0
    THEN LET name == ReadString(buf, 1)
             symbol == ReadString(buf, name.pos)
             uri == ReadString(buf, symbol.pos)
             royalty == ReadU8(buf, uri.pos)
             mutable == ReadBool(buf, royalty.pos)
         IN  IF ~name.ok \/ ~symbol.ok \/ ~uri.ok \/ ~royalty.ok \/ ~mutable.ok
             THEN [tag |-> "Invalid"]
             ELSE IF mutable.pos # Len(buf) THEN [tag |-> "Invalid"]
             ELSE [tag |-> "CreateNFT", name |-> name.val, symbol |-> symbol.val,
                   uri |-> uri.val, royalty_percentage |-> royalty.val,
                   is_mutable |-> mutable.val]
    ELSE IF buf[1] = 1
    THEN LET new_owner == ReadPubkey(buf, 1)
         IN  IF ~new_owner.ok THEN [tag |-> "Invalid"]
             ELSE IF new_owner.pos # Len(buf) THEN [tag |-> "Invalid"]
             ELSE [tag |-> "TransferNFT", new_owner |-> new_owner.val]
    ELSE IF buf[1] = 2
    THEN LET name == ReadOptionString(buf, 1)
             symbol == ReadOptionString(buf, name.pos)
             uri == ReadOptionString(buf, symbol.pos)
         IN  IF ~name.ok \/ ~symbol.ok \/ ~uri.ok THEN [tag |-> "Invalid"]
             ELSE IF uri.pos # Len(buf) THEN [tag |-> "Invalid"]
             ELSE [tag |-> "UpdateMetadata", name |-> name.val, symbol |-> symbol.val,
                   uri |-> uri.val]
    ELSE [tag |-> "Invalid"]

\* -------------------------------------------------------------------------
\* NFT program: the handlers
\* -------------------------------------------------------------------------

\* process_create_nft without the royalty check
process_create_nft_NoRoyaltyCheck(program_id, d, accounts, name, symbol, uri, royalty_percentage, is_mutable) ==
    IF Len(accounts) < 3 THEN Outcome("NotEnoughAccountKeys", d)
    ELSE
    LET nft_account == accounts[1].id
        creator_account == accounts[2]
        rent_account == accounts[3].id
        rent == RentCheck(d, nft_account, rent_account)
        nft_metadata == [name |-> name, symbol |-> symbol, uri |-> uri,
                         creator |-> KeyOf(creator_account.id),
                         royalty_percentage |-> royalty_percentage,
                         is_mutable |-> is_mutable]
        written == SerializeInto(NFTMetadata_bytes(nft_metadata), d[nft_account])
    IN  IF OwnerOf(nft_account) # program_id THEN Outcome("IncorrectProgramId", d)
        ELSE IF ~creator_account.is_signer THEN Outcome("MissingRequiredSignature", d)
        ELSE IF rent # "Ok" THEN Outcome(rent, d)
        ELSE Outcome(written.err, [d EXCEPT ![nft_account] = written.buf])

process_create_nft(program_id, d, accounts, name, symbol, uri, royalty_percentage, is_mutable) ==
    IF Len(accounts) < 3 THEN Outcome("NotEnoughAccountKeys", d)
    ELSE
    LET nft_account == accounts[1].id
        creator_account == accounts[2]
        rent_account == accounts[3].id
        rent == RentCheck(d, nft_account, rent_account)
        nft_metadata == [name |-> name, symbol |-> symbol, uri |-> uri,
                         creator |-> KeyOf(creator_account.id),
                         royalty_percentage |-> royalty_percentage,
                         is_mutable |-> is_mutable]
        written == SerializeInto(NFTMetadata_bytes(nft_metadata), d[nft_account])
    IN  IF OwnerOf(nft_account) # program_id THEN Outcome("IncorrectProgramId", d)
        ELSE IF ~creator_account.is_signer THEN Outcome("MissingRequiredSignature", d)
        ELSE IF rent # "Ok" THEN Outcome(rent, d)
        ELSE IF royalty_percentage > 100 THEN Outcome("InvalidArgument", d)
        ELSE Outcome(written.err, [d EXCEPT ![nft_account] = written.buf])

process_transfer_nft(program_id, d, accounts, new_owner) ==
    IF Len(accounts) < 3 THEN Outcome("NotEnoughAccountKeys", d)
    ELSE
    LET nft_account == accounts[1].id
        current_owner == accounts[2]
        new_owner_account == accounts[3].id
        nft_metadata == NFTMetadata_try_from_slice(d[nft_account])
        written == SerializeInto(
                       NFTMetadata_bytes([nft_metadata.val EXCEPT !.creator = new_owner]),
                       d[nft_account])
    IN  IF OwnerOf(nft_account) # program_id THEN Outcome("IncorrectProgramId", d)
        ELSE IF nft_metadata.err # "Ok" THEN Outcome(nft_metadata.err, d)
        ELSE IF nft_metadata.val.creator # KeyOf(current_owner.id)
             THEN Outcome("InvalidAccountData", d)
        ELSE IF ~current_owner.is_signer THEN Outcome("MissingRequiredSignature", d)
        ELSE IF new_owner # KeyOf(new_owner_account) THEN Outcome("InvalidArgument", d)
        ELSE Outcome(written.err, [d EXCEPT ![nft_account] = written.buf])

\* process_update_metadata with the controller and signer checks made before
\* the is_mutable check
process_update_metadata_AuthorityFirst(program_id, d, accounts, name, symbol, uri) ==
    IF Len(accounts) < 2 THEN Outcome("NotEnoughAccountKeys", d)
    ELSE
    LET nft_account == accounts[1].id
        owner_account == accounts[2]
        nft_metadata == NFTMetadata_try_from_slice(d[nft_account])
        updated == [nft_metadata.val EXCEPT
                       !.name = IF name.some THEN name.val ELSE @,
                       !.symbol = IF symbol.some THEN symbol.val ELSE @,
                       !.uri = IF uri.some THEN uri.val ELSE @]
        written == SerializeInto(NFTMetadata_bytes(updated), d[nft_account])
    IN  IF OwnerOf(nft_account) # program_id THEN Outcome("IncorrectProgramId", d)
        ELSE IF nft_metadata.err # "Ok" THEN Outcome(nft_metadata.err, d)
        ELSE IF nft_metadata.val.creator # KeyOf(owner_account.id)
             THEN Outcome("InvalidAccountData", d)
        ELSE IF ~owner_account.is_signer THEN Outcome("MissingRequiredSignature", d)
        ELSE IF ~nft_metadata.val.is_mutable THEN Outcome("InvalidArgument", d)
        ELSE Outcome(written.err, [d EXCEPT ![nft_account] = written.buf])

\* process_update_metadata that stores an absent uri as the empty text
process_update_metadata_ClearsUri(program_id, d, accounts, name, symbol, uri) ==
    IF Len(accounts) < 2 THEN Outcome("NotEnoughAccountKeys", d)
    ELSE
    LET nft_account == accounts[1].id
        owner_account == accounts[2]
        nft_metadata == NFTMetadata_try_from_slice(d[nft_account])
        updated == [nft_metadata.val EXCEPT
                       !.name = IF name.some THEN name.val ELSE @,
                       !.symbol = IF symbol.some THEN symbol.val ELSE @,
                       !.uri = IF uri.some THEN uri.val ELSE <<>>]
        written == SerializeInto(NFTMetadata_bytes(updated), d[nft_account])
    IN  IF OwnerOf(nft_account) # program_id THEN Outcome("IncorrectProgramId", d)
        ELSE IF nft_metadata.err # "Ok" THEN Outcome(nft_metadata.err, d)
        ELSE IF ~nft_metadata.val.is_mutable THEN Outcome("InvalidArgument", d)
        ELSE IF nft_metadata.val.creator # KeyOf(owner_account.id)
             THEN Outcome("InvalidAccountData", d)
        ELSE IF ~owner_account.is_signer THEN Outcome("MissingRequiredSignature", d)
        ELSE Outcome(written.err, [d EXCEPT ![nft_account] = written.buf])

process_update_metadata(program_id, d, accounts, name, symbol, uri) ==
    IF Len(accounts) < 2 THEN Outcome("NotEnoughAccountKeys", d)
    ELSE
    LET nft_account == accounts[1].id
        owner_account == accounts[2]
        nft_metadata == NFTMetadata_try_from_slice(d[nft_account])
        updated == [nft_metadata.val EXCEPT
                       !.name = IF name.some THEN name.val ELSE @,
                       !.symbol = IF symbol.some THEN symbol.val ELSE @,
                       !.uri = IF uri.some THEN uri.val ELSE @]
        written == SerializeInto(NFTMetadata_bytes(updated), d[nft_account])
    IN  IF OwnerOf(nft_account) # program_id THEN Outcome("IncorrectProgramId", d)
        ELSE IF nft_metadata.err # "Ok" THEN Outcome(nft_metadata.err, d)
        ELSE IF ~nft_metadata.val.is_mutable THEN Outcome("InvalidArgument", d)
        ELSE IF nft_metadata.val.creator # KeyOf(owner_account.id)
             THEN Outcome("InvalidAccountData", d)
        ELSE IF ~owner_account.is_signer THEN Outcome("MissingRequiredSignature", d)
        ELSE Outcome(written.err, [d EXCEPT ![nft_account] = written.buf])

nft_process_instruction(program_id, d, accounts, instruction_data) ==
    LET instruction == NFTInstruction_try_from_slice(instruction_data)
    IN  CASE instruction.tag = "Invalid" -> Outcome("InvalidInstructionData", d)
          [] instruction.tag = "CreateNFT" ->
                process_create_nft(program_id, d, accounts, instruction.name,
                                   instruction.symbol, instruction.uri,
                                   instruction.royalty_percentage, instruction.is_mutable)
          [] instruction.tag = "TransferNFT" ->
                process_transfer_nft(program_id, d, accounts, instruction.new_owner)
          [] instruction.tag = "UpdateMetadata" ->
                process_update_metadata(program_id, d, accounts, instruction.name,
                                        instruction.symbol, instruction.uri)

\* -------------------------------------------------------------------------
\* State
\* -------------------------------------------------------------------------

VARIABLES
    data,     \* account id -> the bytes of its buffer
    pc,       \* "idle": no invocation recorded; "returned": call/result/before describe the last one
    call,     \* the recorded invocation: [program, accounts, instruction_data]
    result,   \* its result: "Ok", a ProgramError kind, or "Panic"
    before,   \* the buffers as they were when it started
    nApplied, \* invocations so far that succeeded or wrote to a buffer
    previous_controller,
              \* history: the wallet that was the NFT record's controller before the
              \* last successful TransferNFT to another key ("none": the record has
              \* not changed hands since it was created)
    codec     \* a record in the hands of the Pack codec outside any invocation:
              \* [type, record, buf, step, err, via, out]

vars == <<data, pc, call, result, before, nApplied, previous_controller, codec>>

NoCall == [program |-> "none", accounts |-> <<>>, instruction_data |-> <<>>]

NoCodec ==
    [type |-> "none", record |-> <<>>, buf |-> <<>>, step |-> "none", err |-> "None",
     via |-> "none", out |-> <<>>]

\* The NFT slot is allocated with room for a record holding two bytes of text.
NftSlotLen == Len(NFTMetadata_bytes(DefaultNFTMetadata)) + 2

\* The buffers the host has allocated before the first instruction: program
\* slots are zero-filled at their size; the token accounts tokA (alice's),
\* tokB (bob's) and foreign (alice's, in a slot of another program) were
\* set up outside this engine with amount 0, since the program has no
\* instruction that initializes a TokenAccount.
InitialData ==
    [id \in AccountIds |->
        CASE id \in MintSlots -> Zeroes(MintLEN)
          [] id \in {"tokA", "foreign"} ->
                TokenAccount_pack_into_slice(
                    [is_initialized |-> TRUE, owner |-> KeyOf("alice"), amount |-> U64Zero],
                    Zeroes(TokenAccountLEN))
          [] id = "tokB" ->
                TokenAccount_pack_into_slice(
                    [is_initialized |-> TRUE, owner |-> KeyOf("bob"), amount |-> U64Zero],
                    Zeroes(TokenAccountLEN))
          [] id = "tokU" -> Zeroes(TokenAccountLEN)
          [] id \in NftSlots -> Zeroes(NftSlotLen)
          [] OTHER -> <<>>]

Init ==
    /\ data = InitialData
    /\ pc = "idle"
    /\ call = NoCall
    /\ result = "None"
    /\ before = InitialData
    /\ nApplied = 0
    /\ previous_controller = "none"
    /\ codec = NoCodec

\* -------------------------------------------------------------------------
\* The invocations the environment submits to the token program
\* -------------------------------------------------------------------------

Acct(id, signed) == [id |-> id, is_signer |-> signed]

Amounts == {U64Of(0), U64Of(1), U64Of(2), U64Max}
Decimals == {2, 9}

EncodeInitializeMint(decimals, mint_authority) == <<0, decimals>> \o mint_authority
EncodeAmountInstruction(tag, amount) == <<tag>> \o to_le_bytes(amount)

TokenPayloads ==
    {EncodeInitializeMint(dec, KeyOf(w)) : dec \in Decimals, w \in Wallets}
    \cup {EncodeAmountInstruction(tag, a) : tag \in {1, 2, 3}, a \in Amounts}
    \cup {<<>>, <<4>>, <<0, 2>>, <<1, 1, 0>>}

\* the slots a caller of the one-mint ledger names in the first two positions
LedgerSlots == {"mint", "mintPoor", "tokA", "tokB", "tokU", "foreign"}

AccountLists(slots) ==
    {<<Acct(s1, FALSE), Acct(s2, FALSE), Acct(w, sg)>> :
        s1 \in slots, s2 \in slots, w \in Wallets, sg \in BOOLEAN}
    \cup {<<Acct(s1, FALSE), Acct(r, FALSE)>> : s1 \in slots, r \in {"rent", "alice"}}
    \cup {<<Acct(s1, FALSE)>> : s1 \in slots}
    \cup {<<>>}

\* One invocation of the token program: the whole of process_instruction.
Invoke(accounts, instruction_data) ==
    /\ pc = "idle"
    /\ nApplied < MaxApplied
    /\ LET out == process_instruction(TokenProgramId, data, accounts, instruction_data)
       IN  /\ data' = out.data
           /\ result' = out.result
           /\ nApplied' = IF out.result = "Ok" \/ out.data # data THEN nApplied + 1 ELSE nApplied
    /\ call' = [program |-> "token", accounts |-> accounts,
                instruction_data |-> instruction_data]
    /\ before' = data
    /\ pc' = "returned"
    /\ UNCHANGED <<previous_controller, codec>>

\* The invocation has returned to the host; the next one starts from these buffers.
Return ==
    /\ pc = "returned"
    /\ pc' = "idle"
    /\ call' = NoCall
    /\ result' = "None"
    /\ before' = data
    /\ UNCHANGED <<data, nApplied, previous_controller, codec>>

InvokeLedger == \E accounts \in AccountLists(LedgerSlots), p \in TokenPayloads : Invoke(accounts, p)

Next == InvokeLedger \/ Return

Spec == Init /\ [][Next]_vars

\* -------------------------------------------------------------------------
\* The invocations the environment submits to the NFT program
\* -------------------------------------------------------------------------

EncodeCreateNFT(name, symbol, uri, royalty_percentage, is_mutable) ==
    <<0>> \o BorshString(name) \o BorshString(symbol) \o BorshString(uri)
    \o <<royalty_percentage>> \o BorshBool(is_mutable)
EncodeTransferNFT(new_owner) == <<1>> \o new_owner
EncodeUpdateMetadata(name, symbol, uri) ==
    <<2>> \o BorshOption(name) \o BorshOption(symbol) \o BorshOption(uri)

\* texts, as ASCII bytes: "X", "Y", "XY", "S", "T", "u"
TextX == <<88>>
TextY == <<89>>
TextXY == <<88, 89>>
TextS == <<83>>
TextT == <<84>>
TextU == <<117>>
Royalties == {100, 101}

NftPayloads ==
    {EncodeCreateNFT(TextX, sy, u, r, m) :
        sy \in {<<>>, TextS}, u \in {<<>>, TextU}, r \in Royalties, m \in BOOLEAN}
    \cup {EncodeTransferNFT(KeyOf(w)) : w \in Wallets}
    \cup {EncodeUpdateMetadata(n, sy, u) :
        n \in {None, Some(TextY), Some(TextXY)}, sy \in {None, Some(TextT)},
        u \in {None, Some(<<>>)}}
    \cup {<<>>, <<3>>, <<1, 1>>}

NftAccountLists ==
    {<<Acct(n, FALSE), Acct(w, sg), Acct(t, FALSE)>> :
        n \in {"nft", "foreign"}, w \in Wallets, sg \in BOOLEAN, t \in {"rent"} \cup Wallets}
    \cup {<<Acct(n, FALSE), Acct(w, sg)>> :
        n \in {"nft", "foreign"}, w \in Wallets, sg \in BOOLEAN}
    \cup {<<Acct("nft", FALSE)>>, <<>>}

\* The history of the record's control after an invocation: a successful
\* TransferNFT to another key makes the signer the previous controller, a
\* CreateNFT that wrote to the slot starts a record with no previous
\* controller, and anything else leaves the history as it was.
PreviousControllerAfter(accounts, instruction_data, out) ==
    LET instruction == NFTInstruction_try_from_slice(instruction_data)
    IN  IF instruction.tag = "TransferNFT" /\ out.result = "Ok"
        THEN IF instruction.new_owner # KeyOf(accounts[2].id)
             THEN accounts[2].id ELSE previous_controller
        ELSE IF instruction.tag = "CreateNFT" /\ (out.result = "Ok" \/ out.data # data)
        THEN "none"
        ELSE previous_controller

\* One invocation of the NFT program: the whole of its process_instruction.
InvokeNft(accounts, instruction_data) ==
    /\ pc = "idle"
    /\ nApplied < MaxApplied
    /\ LET out == nft_process_instruction(NftProgramId, data, accounts, instruction_data)
       IN  /\ data' = out.data
           /\ result' = out.result
           /\ nApplied' = IF out.result = "Ok" \/ out.data # data THEN nApplied + 1 ELSE nApplied
           /\ previous_controller' =
                  PreviousControllerAfter(accounts, instruction_data, out)
    /\ call' = [program |-> "nft", accounts |-> accounts,
                instruction_data |-> instruction_data]
    /\ before' = data
    /\ pc' = "returned"
    /\ UNCHANGED codec

InvokeRegistry == \E accounts \in NftAccountLists, p \in NftPayloads : InvokeNft(accounts, p)

NextNft == InvokeRegistry \/ Return

SpecNft == Init /\ [][NextNft]_vars


\* -------------------------------------------------------------------------
\* Vocabulary of the properties
\* -------------------------------------------------------------------------

Returned == pc = "returned"
CallIx == DecodeTokenInstruction(call.instruction_data)
CallNftIx == NFTInstruction_try_from_slice(call.instruction_data)

\* the recorded invocation is the token program's MintTo, Transfer or Burn
\* (tag) with its three accounts present
TokenCall(tag) ==
    /\ Returned
    /\ call.program = "token"
    /\ CallIx.tag = tag
    /\ Len(call.accounts) >= 3

AmountOps == {"MintTo", "Transfer", "Burn"}
AmountCall == \E tag \in AmountOps : TokenCall(tag)

\* i-th account of the recorded invocation
Arg(i) == call.accounts[i].id

\* the buffer holds a record of the type (it has the type's packed width)
HoldsMint(buf) == Mint_unpack_unchecked(buf).err = "Ok"
HoldsTokenAccount(buf) == TokenAccount_unpack_unchecked(buf).err = "Ok"
MintIn(buf) == Mint_unpack_from_slice(buf)
TokenAccountIn(buf) == TokenAccount_unpack_from_slice(buf)

\* the sum of the amounts of the TokenAccounts in slots ids (some = FALSE: above 2^64-1)
RECURSIVE TotalAmount(_, _)
TotalAmount(d, ids) ==
    IF ids = {} THEN [some |-> TRUE, val |-> U64Zero]
    ELSE LET id == CHOOSE x \in ids : TRUE
             rest == TotalAmount(d, ids \ {id})
         IN  IF ~rest.some THEN rest
             ELSE checked_add(rest.val, TokenAccountIn(d[id]).amount)

\* the TokenAccounts of the ledger and its one Mint
LedgerTokenAccounts == {"tokA", "tokB", "tokU"}

\* -------------------------------------------------------------------------
\* C1  Conservation: with one Mint and the ledger's TokenAccounts starting
\* at supply = sum of amounts = 0, the sum of all TokenAccount amounts equals
\* Mint.supply after every invocation (so after every successful MintTo,
\* Transfer and Burn), and the sum never exceeds 2^64-1.
\* -------------------------------------------------------------------------
C1_Conservation ==
    LET total == TotalAmount(data, LedgerTokenAccounts)
    IN  /\ total.some
        /\ total.val = MintIn(data["mint"]).supply

\* a Burn has succeeded and left tokens outstanding
C1_Witness ==
    /\ TokenCall("Burn")
    /\ result = "Ok"
    /\ CallIx.amount # U64Zero
    /\ MintIn(data["mint"]).supply # U64Zero

\* -------------------------------------------------------------------------
\* C2  MintTo, Transfer and Burn fail with MissingRequiredSignature, changing
\* nothing, when the authority account (the third) has not signed, even when
\* every other field is valid.  "Every other field is valid" is: the same
\* invocation with the authority's signer flag set succeeds; the amount is
\* taken non-zero, so that the invocation moves tokens.
\* -------------------------------------------------------------------------
SignedByAuthority(accounts) == [accounts EXCEPT ![3].is_signer = TRUE]

C2_UnsignedAuthorityRejected ==
    (/\ AmountCall
     /\ ~call.accounts[3].is_signer
     /\ CallIx.amount # U64Zero
     /\ process_instruction(TokenProgramId, before, SignedByAuthority(call.accounts),
                            call.instruction_data).result = "Ok")
    => (result = "MissingRequiredSignature" /\ data = before)

\* -------------------------------------------------------------------------
\* C5  Ledger atomicity: an invocation of the token program that returns an
\* error (or aborts) leaves every buffer as it was; and in MintTo, Transfer
\* and Burn the two records the operation mutates are either both changed
\* or both unchanged, and no other buffer changes.
\* -------------------------------------------------------------------------
C5_LedgerAtomicity ==
    (Returned /\ call.program = "token") =>
        /\ result # "Ok" => data = before
        /\ AmountCall =>
            /\ (data[Arg(1)] # before[Arg(1)]) <=> (data[Arg(2)] # before[Arg(2)])
            /\ \A id \in AccountIds \ {Arg(1), Arg(2)} : data[id] = before[id]

\* a MintTo failed on its second record (an uninitialized destination) after
\* its first record, the Mint, had been decoded and authorized
C5_Witness ==
    /\ TokenCall("MintTo")
    /\ result = "UninitializedAccount"
    /\ Mint_unpack(before[Arg(1)]).err = "Ok"
    /\ CallIx.amount # U64Zero
    /\ data = before

\* -------------------------------------------------------------------------
\* C10  MintTo, Transfer and Burn fail, changing nothing, whenever a record
\* they read (the Mint of MintTo and Burn, the source and the destination
\* TokenAccount) has is_initialized false.
\* -------------------------------------------------------------------------
UninitializedMint(buf) == HoldsMint(buf) /\ ~MintIn(buf).is_initialized
UninitializedTokenAccount(buf) == HoldsTokenAccount(buf) /\ ~TokenAccountIn(buf).is_initialized

ReadsUninitialized ==
    \/ TokenCall("MintTo") /\ (\/ UninitializedMint(before[Arg(1)])
                               \/ UninitializedTokenAccount(before[Arg(2)]))
    \/ TokenCall("Transfer") /\ (\/ UninitializedTokenAccount(before[Arg(1)])
                                 \/ UninitializedTokenAccount(before[Arg(2)]))
    \/ TokenCall("Burn") /\ (\/ UninitializedTokenAccount(before[Arg(1)])
                             \/ UninitializedMint(before[Arg(2)]))

C10_UninitializedRejected ==
    ReadsUninitialized => (result # "Ok" /\ data = before)

\* a Transfer by the source's owner, within its funds, to the uninitialized
\* TokenAccount has been rejected
C10_Witness ==
    /\ TokenCall("Transfer")
    /\ Arg(1) = "tokA" /\ Arg(2) = "tokU" /\ Arg(3) = "alice"
    /\ ~U64Gt(CallIx.amount, TokenAccountIn(before["tokA"]).amount)
    /\ result = "UninitializedAccount"
    /\ data = before


\* -------------------------------------------------------------------------
\* C3  MintTo succeeds only if the authority account's key equals the Mint's
\* stored mint_authority, Transfer and Burn only if it equals the source
\* TokenAccount's stored owner; otherwise the call fails with
\* InvalidAccountData and no buffer changes.
\* -------------------------------------------------------------------------

\* the stored authority the operation compares the third account's key with
StoredAuthority ==
    IF TokenCall("MintTo") THEN MintIn(before[Arg(1)]).mint_authority
    ELSE TokenAccountIn(before[Arg(1)]).owner

\* the first account holds a record of the type the operation reads there
HoldsAuthorityRecord ==
    IF TokenCall("MintTo") THEN HoldsMint(before[Arg(1)])
    ELSE HoldsTokenAccount(before[Arg(1)])

AuthorityInitialized ==
    IF TokenCall("MintTo") THEN MintIn(before[Arg(1)]).is_initialized
    ELSE TokenAccountIn(before[Arg(1)]).is_initialized

AuthorityMismatch ==
    /\ AmountCall
    /\ HoldsAuthorityRecord
    /\ KeyOf(Arg(3)) # StoredAuthority

\* both slots the operation mutates are owned by the token program
SlotsOwned == OwnerOf(Arg(1)) = TokenProgramId /\ OwnerOf(Arg(2)) = TokenProgramId

\* the second account holds a record of the type the operation reads there
HoldsSecondRecord ==
    IF TokenCall("Burn") THEN HoldsMint(before[Arg(2)])
    ELSE HoldsTokenAccount(before[Arg(2)])

\* C3 as stated (for calls whose two slots hold records of the expected
\* types): a mismatch always yields InvalidAccountData
C3_AsStated ==
    /\ (AmountCall /\ result = "Ok") => (HoldsAuthorityRecord /\ KeyOf(Arg(3)) = StoredAuthority)
    /\ (AuthorityMismatch /\ HoldsSecondRecord)
           => (result = "InvalidAccountData" /\ data = before)

\* C3 as amended: the operations succeed only on a key match; on a mismatch
\* the call fails and no buffer changes, and it fails with InvalidAccountData
\* when both slots it mutates are owned by the program and the record holding
\* the authority is initialized (the checks made before the comparison).
C3_AuthorityMatch ==
    /\ (AmountCall /\ result = "Ok") => (HoldsAuthorityRecord /\ KeyOf(Arg(3)) = StoredAuthority)
    /\ AuthorityMismatch => (result # "Ok" /\ data = before)
    /\ (AuthorityMismatch /\ SlotsOwned /\ AuthorityInitialized)
           => result = "InvalidAccountData"

\* a Burn within the source's funds, on the initialized Mint, presented by a
\* signer who is not the source's owner, has been rejected
C3_Witness ==
    /\ TokenCall("Burn")
    /\ AuthorityMismatch /\ SlotsOwned /\ AuthorityInitialized
    /\ call.accounts[3].is_signer
    /\ Mint_unpack(before[Arg(2)]).err = "Ok"
    /\ CallIx.amount # U64Zero
    /\ checked_sub(TokenAccountIn(before[Arg(1)]).amount, CallIx.amount).some
    /\ result = "InvalidAccountData"

\* -------------------------------------------------------------------------
\* C4  A Transfer or Burn whose amount exceeds the source TokenAccount's
\* amount fails with InsufficientFunds and leaves source, destination and
\* Mint unchanged; no TokenAccount amount underflows.
\* -------------------------------------------------------------------------

DebitCall == TokenCall("Transfer") \/ TokenCall("Burn")

\* amount > source.amount, said without the handlers' comparison: the
\* subtraction source.amount - amount has no result
Overdraw ==
    /\ DebitCall
    /\ HoldsTokenAccount(before[Arg(1)])
    /\ ~checked_sub(TokenAccountIn(before[Arg(1)]).amount, CallIx.amount).some

\* every check the handlers make before comparing amount with source.amount passes
ComparisonReached ==
    /\ SlotsOwned
    /\ TokenAccount_unpack(before[Arg(1)]).err = "Ok"
    /\ KeyOf(Arg(3)) = TokenAccountIn(before[Arg(1)]).owner
    /\ Arg(2) # Arg(1)
    /\ IF TokenCall("Transfer") THEN TokenAccount_unpack(before[Arg(2)]).err = "Ok"
       ELSE Mint_unpack(before[Arg(2)]).err = "Ok"

\* C4 as stated (for calls whose two slots hold records of the expected
\* types): an overdraw always yields InsufficientFunds
C4_AsStated ==
    (Overdraw /\ HoldsSecondRecord) => (result = "InsufficientFunds" /\ data = before)

\* C4 as amended: an overdraw fails and changes no buffer, it fails with
\* InsufficientFunds when the ownership, decoding and authority checks made
\* before the comparison pass, and a successful Transfer or Burn leaves
\* source.amount + amount equal to the source's former amount (no underflow).
C4_InsufficientFunds ==
    /\ Overdraw => (result # "Ok" /\ data = before)
    /\ (Overdraw /\ ComparisonReached) => result = "InsufficientFunds"
    /\ (DebitCall /\ result = "Ok") =>
           checked_add(TokenAccountIn(data[Arg(1)]).amount, CallIx.amount)
               = [some |-> TRUE, val |-> TokenAccountIn(before[Arg(1)]).amount]

\* a Transfer of source.amount + 1 by the owner between two initialized
\* TokenAccounts, the source holding tokens, has been rejected
C4_Witness ==
    /\ TokenCall("Transfer")
    /\ Overdraw /\ ComparisonReached
    /\ TokenAccountIn(before[Arg(1)]).amount # U64Zero
    /\ checked_add(TokenAccountIn(before[Arg(1)]).amount, U64Of(1))
           = [some |-> TRUE, val |-> CallIx.amount]
    /\ result = "InsufficientFunds"
    /\ data = before

\* -------------------------------------------------------------------------
\* C8  InitializeMint on a program-owned slot whose Mint record is already
\* initialized, presented with a second account, fails with
\* AccountAlreadyInitialized and leaves the record unchanged.
\* -------------------------------------------------------------------------
C8_ReinitializationRejected ==
    (/\ Returned
     /\ call.program = "token"
     /\ CallIx.tag = "InitializeMint"
     /\ Len(call.accounts) >= 2
     /\ OwnerOf(Arg(1)) = TokenProgramId
     /\ HoldsMint(before[Arg(1)])
     /\ MintIn(before[Arg(1)]).is_initialized)
    => (result = "AccountAlreadyInitialized" /\ data = before)

\* -------------------------------------------------------------------------
\* C9  Once a Mint record is initialized, no invocation of the token
\* program, successful or failing, changes its is_initialized, decimals or
\* mint_authority.
\* -------------------------------------------------------------------------
C9_MintFieldsFixed ==
    (Returned /\ call.program = "token") =>
        \A id \in AccountIds :
            (HoldsMint(before[id]) /\ MintIn(before[id]).is_initialized) =>
                /\ HoldsMint(data[id])
                /\ MintIn(data[id]).is_initialized
                /\ MintIn(data[id]).decimals = MintIn(before[id]).decimals
                /\ MintIn(data[id]).mint_authority = MintIn(before[id]).mint_authority

\* an InitializeMint naming other decimals and another authority has run,
\* with the rent sysvar, on the initialized Mint
C9_Witness ==
    /\ Returned
    /\ call.program = "token"
    /\ CallIx.tag = "InitializeMint"
    /\ Len(call.accounts) >= 2
    /\ Arg(2) = "rent"
    /\ HoldsMint(before[Arg(1)])
    /\ MintIn(before[Arg(1)]).is_initialized
    /\ CallIx.decimals # MintIn(before[Arg(1)]).decimals
    /\ CallIx.mint_authority # MintIn(before[Arg(1)]).mint_authority
    /\ result = "AccountAlreadyInitialized"

\* -------------------------------------------------------------------------
\* C6  CreateNFT on a slot that already holds an NFT record is rejected and
\* leaves the record unchanged.  A slot holds a record when its bytes decode
\* as an NFTMetadata.
\* -------------------------------------------------------------------------
HoldsNft(buf) == NFTMetadata_try_from_slice(buf).err = "Ok"
NftIn(buf) == NFTMetadata_try_from_slice(buf).val

NftCall(tag) ==
    /\ Returned
    /\ call.program = "nft"
    /\ CallNftIx.tag = tag

C6_CreateOnExistingRejected ==
    (/\ NftCall("CreateNFT")
     /\ Len(call.accounts) >= 1
     /\ HoldsNft(before[Arg(1)]))
    => (result # "Ok" /\ data = before)

\* -------------------------------------------------------------------------
\* C7  The creator field of an existing NFT record changes only in a
\* successful TransferNFT signed by the account whose key is the record's
\* current creator.
\* -------------------------------------------------------------------------
C7_CreatorChangesOnlyByTransfer ==
    (Returned /\ call.program = "nft") =>
        \A id \in NftSlots :
            (/\ HoldsNft(before[id])
             /\ HoldsNft(data[id])
             /\ NftIn(data[id]).creator # NftIn(before[id]).creator)
            => /\ CallNftIx.tag = "TransferNFT"
               /\ result = "Ok"
               /\ Len(call.accounts) >= 2
               /\ call.accounts[2].is_signer
               /\ KeyOf(Arg(2)) = NftIn(before[id]).creator

\* -------------------------------------------------------------------------
\* C11  The is_mutable flag of an NFT record is fixed at its creation: no
\* invocation of the NFT program changes the is_mutable of a record the slot
\* holds, nor the name, symbol or uri of a record whose is_mutable is false.
\* -------------------------------------------------------------------------
C11_MutabilityFixed ==
    (Returned /\ call.program = "nft") =>
        \A id \in NftSlots :
            (HoldsNft(before[id]) /\ HoldsNft(data[id])) =>
                /\ NftIn(data[id]).is_mutable = NftIn(before[id]).is_mutable
                /\ ~NftIn(before[id]).is_mutable =>
                       /\ NftIn(data[id]).name = NftIn(before[id]).name
                       /\ NftIn(data[id]).symbol = NftIn(before[id]).symbol
                       /\ NftIn(data[id]).uri = NftIn(before[id]).uri

\* -------------------------------------------------------------------------
\* C12  UpdateMetadata, presented with the NFT slot and an owner account, on
\* a program-owned slot whose record has is_mutable false, fails with
\* InvalidArgument whatever the optional fields and whoever the owner
\* account is, signed or not, and leaves every buffer unchanged.
\* -------------------------------------------------------------------------
UpdateOnImmutable ==
    /\ NftCall("UpdateMetadata")
    /\ Len(call.accounts) >= 2
    /\ OwnerOf(Arg(1)) = NftProgramId
    /\ HoldsNft(before[Arg(1)])
    /\ ~NftIn(before[Arg(1)]).is_mutable

\* C12: such an UpdateMetadata fails with InvalidArgument and changes nothing
C12_ImmutableRejected ==
    UpdateOnImmutable => (result = "InvalidArgument" /\ data = before)

\* the record's controller has signed an UpdateMetadata that names a new
\* name, and it has been rejected
C12_Witness ==
    /\ UpdateOnImmutable
    /\ call.accounts[2].is_signer
    /\ KeyOf(Arg(2)) = NftIn(before[Arg(1)]).creator
    /\ CallNftIx.name.some
    /\ CallNftIx.name.val # NftIn(before[Arg(1)]).name
    /\ result = "InvalidArgument"
    /\ data = before

\* -------------------------------------------------------------------------
\* C13  CreateNFT with royalty_percentage above 100 fails with
\* InvalidArgument and writes nothing, CreateNFT with royalty_percentage of
\* at most 100 (other preconditions met) succeeds, and every stored NFT
\* record has royalty_percentage in [0,100].
\* -------------------------------------------------------------------------

\* a CreateNFT presented with its three accounts
CreateCall == NftCall("CreateNFT") /\ Len(call.accounts) >= 3

\* the checks process_create_nft makes before it looks at the royalty pass
CreatePreconditions ==
    /\ CreateCall
    /\ OwnerOf(Arg(1)) = NftProgramId
    /\ call.accounts[2].is_signer
    /\ RentCheck(before, Arg(1), Arg(3)) = "Ok"

\* the record the CreateNFT describes, and whether the slot has room for it
CreatedRecord ==
    [name |-> CallNftIx.name, symbol |-> CallNftIx.symbol, uri |-> CallNftIx.uri,
     creator |-> KeyOf(Arg(2)), royalty_percentage |-> CallNftIx.royalty_percentage,
     is_mutable |-> CallNftIx.is_mutable]
RecordFits(record, buf) == Len(NFTMetadata_bytes(record)) <= Len(buf)
StartsWith(buf, bytes) ==
    Len(bytes) <= Len(buf) /\ SubSeq(buf, 1, Len(bytes)) = bytes

RoyaltyInRange ==
    \A id \in NftSlots : HoldsNft(data[id]) => NftIn(data[id]).royalty_percentage <= 100

\* C13 as stated (for calls presented with three accounts on a program-owned
\* slot): above 100 always yields InvalidArgument, and at most 100 with the
\* other preconditions met always succeeds
C13_AsStated ==
    /\ (CreateCall /\ OwnerOf(Arg(1)) = NftProgramId /\ CallNftIx.royalty_percentage > 100)
           => (result = "InvalidArgument" /\ data = before)
    /\ (CreatePreconditions /\ CallNftIx.royalty_percentage <= 100) => result = "Ok"
    /\ RoyaltyInRange

\* C13 as amended: above 100 the call fails and writes nothing, with
\* InvalidArgument when the ownership, signer and rent checks made before the
\* royalty check pass; at most 100 with those checks passing, the call
\* succeeds and stores the record when the record fits in the slot; every
\* record a slot holds has royalty_percentage at most 100.
C13_RoyaltyBound ==
    /\ (NftCall("CreateNFT") /\ CallNftIx.royalty_percentage > 100)
           => (result # "Ok" /\ data = before)
    /\ (CreatePreconditions /\ CallNftIx.royalty_percentage > 100)
           => result = "InvalidArgument"
    /\ (/\ CreatePreconditions
        /\ CallNftIx.royalty_percentage <= 100
        /\ RecordFits(CreatedRecord, before[Arg(1)]))
           => (result = "Ok" /\ StartsWith(data[Arg(1)], NFTMetadata_bytes(CreatedRecord)))
    /\ RoyaltyInRange

\* a signed CreateNFT with royalty 101 on a slot that holds a record has
\* been rejected
C13_Witness ==
    /\ CreatePreconditions
    /\ CallNftIx.royalty_percentage = 101
    /\ HoldsNft(before[Arg(1)])
    /\ RecordFits(CreatedRecord, before[Arg(1)])
    /\ result = "InvalidArgument"
    /\ data = before

\* -------------------------------------------------------------------------
\* C14  After a successful TransferNFT(new_owner) the record's creator equals
\* new_owner and every other field is unchanged; from then on an
\* UpdateMetadata or TransferNFT signed by the previous controller fails
\* with InvalidAccountData, while the same call signed by new_owner is
\* authorized.  Stated for calls made while the slot holds a record.
\* -------------------------------------------------------------------------

\* an UpdateMetadata or TransferNFT presented with the accounts it reads
ControlCall ==
    \/ NftCall("UpdateMetadata") /\ Len(call.accounts) >= 2
    \/ NftCall("TransferNFT") /\ Len(call.accounts) >= 3

\* a successful TransferNFT leaves the record with creator = new_owner and
\* the other fields as they were
TransferEffect ==
    (NftCall("TransferNFT") /\ result = "Ok") =>
        /\ HoldsNft(before[Arg(1)])
        /\ HoldsNft(data[Arg(1)])
        /\ NftIn(data[Arg(1)]) = [NftIn(before[Arg(1)]) EXCEPT !.creator = CallNftIx.new_owner]
        /\ \A id \in AccountIds \ {Arg(1)} : data[id] = before[id]

\* the call is presented, on the NFT slot, by the wallet that controlled the
\* record before its last transfer and does not control it now
ByPreviousController ==
    /\ ControlCall
    /\ Arg(1) \in NftSlots
    /\ previous_controller # "none"
    /\ Arg(2) = previous_controller
    /\ HoldsNft(before[Arg(1)]) => NftIn(before[Arg(1)]).creator # KeyOf(previous_controller)

\* the call is presented and signed by the record's controller
BySigningController ==
    /\ ControlCall
    /\ Arg(1) \in NftSlots
    /\ HoldsNft(before[Arg(1)])
    /\ NftIn(before[Arg(1)]).creator = KeyOf(Arg(2))
    /\ call.accounts[2].is_signer

\* the call passed the controller and signer checks
Authorized == result \notin {"InvalidAccountData", "MissingRequiredSignature"}

\* C14: a successful TransferNFT has the stated effect, the previous
\* controller's signed call on the record fails with InvalidAccountData, and
\* the controller's signed call is authorized
C14_PreviousControllerRejected ==
    /\ TransferEffect
    /\ (ByPreviousController /\ call.accounts[2].is_signer /\ HoldsNft(before[Arg(1)]))
           => result = "InvalidAccountData"
    /\ BySigningController => Authorized

\* -------------------------------------------------------------------------
\* C15  A successful UpdateMetadata(name?, symbol?, uri?) replaces exactly
\* the stored text fields whose argument is present and leaves the absent
\* ones, as well as creator, royalty_percentage and is_mutable, unchanged.
\* -------------------------------------------------------------------------

\* the record an UpdateMetadata with these arguments makes of record m
UpdatedRecord(m, name, symbol, uri) ==
    [name |-> IF name.some THEN name.val ELSE m.name,
     symbol |-> IF symbol.some THEN symbol.val ELSE m.symbol,
     uri |-> IF uri.some THEN uri.val ELSE m.uri,
     creator |-> m.creator,
     royalty_percentage |-> m.royalty_percentage,
     is_mutable |-> m.is_mutable]

\* C15: after a successful UpdateMetadata the slot starts with the bytes of
\* the record so updated, and no other buffer has changed
C15_UpdateEffect ==
    (NftCall("UpdateMetadata") /\ result = "Ok") =>
        /\ HoldsNft(before[Arg(1)])
        /\ StartsWith(data[Arg(1)],
                      NFTMetadata_bytes(UpdatedRecord(NftIn(before[Arg(1)]), CallNftIx.name,
                                                      CallNftIx.symbol, CallNftIx.uri)))
        /\ \A id \in AccountIds \ {Arg(1)} : data[id] = before[id]

\* an UpdateMetadata has succeeded that names a new name of the same length
\* and a new symbol and leaves the uri absent, on a record with a uri
C15_Witness ==
    /\ NftCall("UpdateMetadata")
    /\ result = "Ok"
    /\ CallNftIx.name.some
    /\ CallNftIx.name.val # NftIn(before[Arg(1)]).name
    /\ ~CallNftIx.uri.some
    /\ NftIn(before[Arg(1)]).uri # <<>>
    /\ HoldsNft(data[Arg(1)])
    /\ NftIn(data[Arg(1)]).name = CallNftIx.name.val
    /\ NftIn(data[Arg(1)]).uri = NftIn(before[Arg(1)]).uri

\* -------------------------------------------------------------------------
\* C16  Registry atomicity: any CreateNFT, TransferNFT or UpdateMetadata
\* invocation that returns an error leaves the NFT slot byte-for-byte
\* unchanged, including the case where the record to be written does not
\* fit in the slot.
\* -------------------------------------------------------------------------
C16_RegistryAtomicity ==
    (/\ Returned
     /\ call.program = "nft"
     /\ CallNftIx.tag \in {"CreateNFT", "TransferNFT", "UpdateMetadata"}
     /\ result # "Ok")
    => \A id \in NftSlots : data[id] = before[id]

\* -------------------------------------------------------------------------
\* The token program's decoder under payloads of every length around the
\* minimum widths
\* -------------------------------------------------------------------------

\* the first n bytes of payload, zero-filled when payload is shorter
Resize(payload, n) == [i \in 1..n |-> IF i <= Len(payload) THEN payload[i] ELSE 0]

DecoderTags == {0, 1, 2, 3, 4, 255}
DecoderLengths == {1, 2, 8, 9, 10, 33, 34, 35}

DecoderPayloads ==
    {Resize(EncodeInitializeMint(9, KeyOf("alice")), n) : n \in DecoderLengths}
    \cup {Resize(EncodeAmountInstruction(tag, U64Of(1)), n) :
             tag \in DecoderTags \ {0}, n \in DecoderLengths}
    \cup {<<>>}

DecoderAccountLists ==
    {<<>>,
     <<Acct("mint", FALSE), Acct("rent", FALSE)>>,
     <<Acct("mint", FALSE), Acct("tokA", FALSE), Acct("alice", TRUE)>>,
     <<Acct("tokA", FALSE), Acct("tokB", FALSE), Acct("alice", TRUE)>>,
     <<Acct("tokA", FALSE), Acct("mint", FALSE), Acct("alice", TRUE)>>,
     <<Acct("foreign", FALSE), Acct("tokA", FALSE), Acct("alice", TRUE)>>}

InvokeDecoder ==
    \E accounts \in DecoderAccountLists, p \in DecoderPayloads : Invoke(accounts, p)

NextDecoder == InvokeDecoder \/ Return

SpecDecoder == Init /\ [][NextDecoder]_vars

\* -------------------------------------------------------------------------
\* C17  The ledger decoder rejects with InvalidInstructionData, before
\* touching any account, every payload that is empty, whose first byte is
\* not in {0,1,2,3}, or that is shorter than 34 bytes for tag 0 or 9 bytes
\* for tags 1-3; for every other payload the operation dispatched is
\* determined by the first byte alone, independent of account contents.
\* -------------------------------------------------------------------------
Malformed(payload) ==
    \/ payload = <<>>
    \/ payload[1] \notin {0, 1, 2, 3}
    \/ payload[1] = 0 /\ Len(payload) < 34
    \/ payload[1] \in {1, 2, 3} /\ Len(payload) < 9

\* what the operation named by the first byte of a well-formed payload does
\* to the buffers d with the accounts presented
OperationOfTag(d, accounts, payload) ==
    CASE payload[1] = 0 ->
            process_initialize_mint(d, accounts, payload[2], SubSeq(payload, 3, 34),
                                    TokenProgramId)
      [] payload[1] = 1 ->
            process_mint_to(d, accounts, from_le_bytes(SubSeq(payload, 2, 9)), TokenProgramId)
      [] payload[1] = 2 ->
            process_transfer(d, accounts, from_le_bytes(SubSeq(payload, 2, 9)), TokenProgramId)
      [] payload[1] = 3 ->
            process_burn(d, accounts, from_le_bytes(SubSeq(payload, 2, 9)), TokenProgramId)

\* C17: a malformed payload yields InvalidInstructionData and changes no
\* buffer, whatever the accounts; any other payload has the outcome of the
\* operation its first byte names
C17_DecoderRejectsMalformed ==
    (Returned /\ call.program = "token") =>
        IF Malformed(call.instruction_data)
        THEN result = "InvalidInstructionData" /\ data = before
        ELSE Outcome(result, data)
                 = OperationOfTag(before, call.accounts, call.instruction_data)

\* a Burn payload one byte short of its width has been rejected, presented
\* with the accounts on which the same payload at full width succeeds
C17_Witness ==
    /\ Returned
    /\ call.program = "token"
    /\ Len(call.instruction_data) = 8
    /\ call.instruction_data[1] = 3
    /\ result = "InvalidInstructionData"
    /\ data = before
    /\ process_instruction(TokenProgramId, before, call.accounts,
                           Resize(call.instruction_data, 9)).result = "Ok"

\* -------------------------------------------------------------------------
\* Both programs presented with slots of the other program and of a third
\* -------------------------------------------------------------------------

OwnershipSlots == {"mint", "tokA", "tokU", "nft", "foreign"}

OwnershipLedgerLists ==
    {<<Acct(s1, FALSE), Acct(s2, FALSE), Acct("alice", sg)>> :
        s1 \in OwnershipSlots, s2 \in OwnershipSlots, sg \in BOOLEAN}
    \cup {<<Acct(s1, FALSE), Acct(r, FALSE)>> : s1 \in OwnershipSlots, r \in {"rent", "alice"}}

OwnershipLedgerPayloads ==
    {EncodeInitializeMint(9, KeyOf("alice"))}
    \cup {EncodeAmountInstruction(tag, U64Of(1)) : tag \in {1, 2, 3}}

OwnershipRegistryLists ==
    {<<Acct(n, FALSE), Acct("alice", sg), Acct(t, FALSE)>> :
        n \in OwnershipSlots, sg \in BOOLEAN, t \in {"rent", "bob"}}
    \cup {<<Acct(n, FALSE), Acct("alice", sg)>> : n \in OwnershipSlots, sg \in BOOLEAN}

OwnershipRegistryPayloads ==
    {EncodeCreateNFT(TextX, TextS, <<>>, r, TRUE) : r \in Royalties}
    \cup {EncodeTransferNFT(KeyOf("bob")),
          EncodeUpdateMetadata(Some(TextY), None, None)}

InvokeLedgerOwnership ==
    \E accounts \in OwnershipLedgerLists, p \in OwnershipLedgerPayloads : Invoke(accounts, p)

InvokeRegistryOwnership ==
    \E accounts \in OwnershipRegistryLists, p \in OwnershipRegistryPayloads :
        InvokeNft(accounts, p)

NextOwnership == InvokeLedgerOwnership \/ InvokeRegistryOwnership \/ Return

SpecOwnership == Init /\ [][NextOwnership]_vars

\* -------------------------------------------------------------------------
\* C18  Every operation fails with IncorrectProgramId, changing nothing, when
\* any slot it would mutate is not owned by this program: the mint in
\* InitializeMint, mint and destination in MintTo, source and destination in
\* Transfer, source and mint in Burn, and the nft slot in CreateNFT,
\* TransferNFT and UpdateMetadata; this check precedes every check on record
\* contents, signer or rent.
\* -------------------------------------------------------------------------

\* the slots the recorded operation would mutate, when it is presented with
\* the accounts it reads (none otherwise)
MutatedSlots ==
    IF call.program = "token"
    THEN IF CallIx.tag = "InitializeMint" /\ Len(call.accounts) >= 2 THEN {Arg(1)}
         ELSE IF CallIx.tag \in AmountOps /\ Len(call.accounts) >= 3 THEN {Arg(1), Arg(2)}
         ELSE {}
    ELSE IF call.program = "nft"
    THEN IF CallNftIx.tag \in {"CreateNFT", "TransferNFT"} /\ Len(call.accounts) >= 3
         THEN {Arg(1)}
         ELSE IF CallNftIx.tag = "UpdateMetadata" /\ Len(call.accounts) >= 2 THEN {Arg(1)}
         ELSE {}
    ELSE {}

CalledProgramId == IF call.program = "token" THEN TokenProgramId ELSE NftProgramId

NotOwned == \E id \in MutatedSlots : OwnerOf(id) # CalledProgramId

\* C18: an operation presented with a slot to mutate that the called program
\* does not own fails with IncorrectProgramId and changes no buffer, whatever
\* the slots hold, whoever signed and whatever the rent account is
C18_OwnershipFirst ==
    (Returned /\ NotOwned) => (result = "IncorrectProgramId" /\ data = before)

\* a MintTo from an uninitialized Mint, unsigned, into a slot of another
\* program has been rejected for the slot's owner
C18_Witness ==
    /\ TokenCall("MintTo")
    /\ OwnerOf(Arg(1)) = TokenProgramId
    /\ OwnerOf(Arg(2)) # TokenProgramId
    /\ UninitializedMint(before[Arg(1)])
    /\ ~call.accounts[3].is_signer
    /\ result = "IncorrectProgramId"
    /\ data = before

\* -------------------------------------------------------------------------
\* The Pack codec on its own: a record and a destination buffer are drawn,
\* the record is packed into the buffer, and the buffer is unpacked
\* -------------------------------------------------------------------------

\* a key and an amount whose bytes all differ
KeyCounting == [i \in 1..32 |-> i]
AmountCounting == <<513, 1027, 1541, 2055>>

CodecKeys == {PubkeyOf(0), KeyOf("alice"), KeyCounting, PubkeyOf(255)}
CodecAmounts == {U64Zero, U64Of(1), AmountCounting, U64Max}
CodecDecimals == {0, 9, 255}

CodecTokenAccounts ==
    {[is_initialized |-> i, owner |-> k, amount |-> a] :
        i \in BOOLEAN, k \in CodecKeys, a \in CodecAmounts}

CodecMints ==
    {[is_initialized |-> i, mint_authority |-> k, supply |-> a, decimals |-> dec] :
        i \in BOOLEAN, k \in CodecKeys, a \in CodecAmounts, dec \in CodecDecimals}

\* the buffers: of the widths around 41, 42 and the two LENs, holding zeroes
\* or the bytes of an earlier use
CodecLengths ==
    {0, 40, 41, 42, 43, TokenAccountLEN - 1, TokenAccountLEN, TokenAccountLEN + 1,
     MintLEN - 1, MintLEN, MintLEN + 1}
CodecBuffers == {[i \in 1..n |-> fill] : n \in CodecLengths, fill \in {0, 255}}

InitCodec ==
    /\ data = InitialData
    /\ pc = "idle"
    /\ call = NoCall
    /\ result = "None"
    /\ before = InitialData
    /\ nApplied = 0
    /\ previous_controller = "none"
    /\ \E type \in {"TokenAccount", "Mint"}, buf \in CodecBuffers :
        \E record \in IF type = "Mint" THEN CodecMints ELSE CodecTokenAccounts :
            codec = [type |-> type, record |-> record, buf |-> buf, step |-> "input",
                     err |-> "None", via |-> "none", out |-> <<>>]

\* Pack::pack(record, &mut buf)
Pack ==
    /\ codec.step = "input"
    /\ LET packed == IF codec.type = "Mint" THEN Mint_pack(codec.record, codec.buf)
                     ELSE TokenAccount_pack(codec.record, codec.buf)
       IN  codec' = [codec EXCEPT !.step = "packed", !.err = packed.err, !.buf = packed.buf]
    /\ UNCHANGED <<data, pc, call, result, before, nApplied, previous_controller>>

\* Pack::unpack_unchecked(&buf)
UnpackUnchecked ==
    /\ codec.step = "packed"
    /\ codec' = [codec EXCEPT
                    !.step = "unpacked",
                    !.via = "unpack_unchecked",
                    !.out = IF codec.type = "Mint" THEN Mint_unpack_unchecked(codec.buf)
                            ELSE TokenAccount_unpack_unchecked(codec.buf)]
    /\ UNCHANGED <<data, pc, call, result, before, nApplied, previous_controller>>

\* Pack::unpack(&buf)
Unpack ==
    /\ codec.step = "packed"
    /\ codec' = [codec EXCEPT
                    !.step = "unpacked",
                    !.via = "unpack",
                    !.out = IF codec.type = "Mint" THEN Mint_unpack(codec.buf)
                            ELSE TokenAccount_unpack(codec.buf)]
    /\ UNCHANGED <<data, pc, call, result, before, nApplied, previous_controller>>

NextCodec == Pack \/ UnpackUnchecked \/ Unpack

SpecCodec == InitCodec /\ [][NextCodec]_vars

\* -------------------------------------------------------------------------
\* C19  Round-trip: for every Mint record and every TokenAccount record R,
\* unpacking the bytes produced by packing R yields a record equal to R in
\* every field.  Unpacking is the field-by-field decoding, which
\* unpack_unchecked applies to a buffer of the packed width; unpack applies
\* it too and then refuses a record whose is_initialized is false.
\* -------------------------------------------------------------------------
C19_RoundTrip ==
    (codec.step = "unpacked" /\ codec.err = "Ok") =>
        IF codec.via = "unpack_unchecked" \/ codec.record.is_initialized
        THEN codec.out = [err |-> "Ok", val |-> codec.record]
        ELSE codec.out.err = "UninitializedAccount" /\ codec.out.val = codec.record

\* a TokenAccount whose owner and amount have 40 different bytes has come
\* back from a buffer that held other bytes before
C19_Witness ==
    /\ codec.step = "unpacked"
    /\ codec.type = "TokenAccount"
    /\ codec.err = "Ok"
    /\ codec.record = [is_initialized |-> TRUE, owner |-> KeyCounting, amount |-> AmountCounting]
    /\ codec.buf # TokenAccount_pack_into_slice(codec.record, Zeroes(TokenAccountLEN))
    /\ codec.out = [err |-> "Ok", val |-> codec.record]

\* -------------------------------------------------------------------------
\* C20  The packed width of a TokenAccount is exactly 41 bytes and of a Mint
\* exactly 42 bytes: a slot of exactly that width is accepted by unpack and
\* pack, and a buffer shorter than that width is rejected with a decoding
\* error rather than read out of bounds.
\* -------------------------------------------------------------------------

\* the width the layout of the fields gives: the end of the last field
PackedWidth(type) == IF type = "Mint" THEN 41 + 1 ELSE 33 + 8

\* C20: pack and unpack accept a buffer of the packed width and reject a
\* shorter one with InvalidAccountData, leaving it as it was
C20_PackedWidth ==
    /\ (codec.step \in {"packed", "unpacked"} /\ Len(codec.buf) = PackedWidth(codec.type))
           => codec.err = "Ok"
    /\ (codec.step = "unpacked" /\ codec.via = "unpack_unchecked"
            /\ Len(codec.buf) = PackedWidth(codec.type))
           => codec.out.err = "Ok"
    /\ (codec.step \in {"packed", "unpacked"} /\ Len(codec.buf) < PackedWidth(codec.type))
           => codec.err = "InvalidAccountData"
    /\ (codec.step = "unpacked" /\ Len(codec.buf) < PackedWidth(codec.type))
           => codec.out.err = "InvalidAccountData"

\* -------------------------------------------------------------------------
\* C21  Every failing invocation of either program returns an error kind of
\* the taxonomy of eight, including calls with too few accounts or with an
\* uninitialized record.
\* -------------------------------------------------------------------------
ErrorTaxonomy ==
    {"InvalidInstructionData", "IncorrectProgramId", "MissingRequiredSignature",
     "AccountNotRentExempt", "AccountAlreadyInitialized", "InvalidAccountData",
     "InvalidArgument", "InsufficientFunds"}

\* C21: the result of an invocation is Ok or one of the eight kinds
C21_ErrorTaxonomy ==
    (Returned /\ result # "Ok") => result \in ErrorTaxonomy

\* -------------------------------------------------------------------------
\* C22  A successful MintTo(amount) adds amount to both mint.supply and
\* destination.amount, a successful Transfer(amount) subtracts amount from
\* source.amount and adds it to destination.amount without changing any
\* Mint, and a successful Burn(amount) subtracts amount from both
\* source.amount and mint.supply; no other field or record changes, so
\* supply is changed only by MintTo and Burn, and applying the same MintTo
\* twice adds twice the amount.
\* -------------------------------------------------------------------------

\* new = old + amount, without overflow
IsSum(new, old, amount) == checked_add(old, amount) = [some |-> TRUE, val |-> new]

\* the slot held a Mint before and holds the same Mint with supply new
MintBecomes(id, new) ==
    /\ HoldsMint(before[id])
    /\ data[id] = Mint_pack_into_slice([MintIn(before[id]) EXCEPT !.supply = new], before[id])
    /\ MintIn(data[id]) = [MintIn(before[id]) EXCEPT !.supply = new]

\* the slot held a TokenAccount before and holds the same with amount new
TokenAccountBecomes(id, new) ==
    /\ HoldsTokenAccount(before[id])
    /\ data[id] = TokenAccount_pack_into_slice(
                      [TokenAccountIn(before[id]) EXCEPT !.amount = new], before[id])
    /\ TokenAccountIn(data[id]) = [TokenAccountIn(before[id]) EXCEPT !.amount = new]

OthersUnchanged == \A id \in AccountIds \ {Arg(1), Arg(2)} : data[id] = before[id]

MintToEffect ==
    (TokenCall("MintTo") /\ result = "Ok") =>
        /\ MintBecomes(Arg(1), MintIn(data[Arg(1)]).supply)
        /\ IsSum(MintIn(data[Arg(1)]).supply, MintIn(before[Arg(1)]).supply, CallIx.amount)
        /\ TokenAccountBecomes(Arg(2), TokenAccountIn(data[Arg(2)]).amount)
        /\ IsSum(TokenAccountIn(data[Arg(2)]).amount, TokenAccountIn(before[Arg(2)]).amount,
                 CallIx.amount)
        /\ OthersUnchanged

TransferEffectOnLedger ==
    (TokenCall("Transfer") /\ result = "Ok") =>
        /\ TokenAccountBecomes(Arg(1), TokenAccountIn(data[Arg(1)]).amount)
        /\ IsSum(TokenAccountIn(before[Arg(1)]).amount, TokenAccountIn(data[Arg(1)]).amount,
                 CallIx.amount)
        /\ TokenAccountBecomes(Arg(2), TokenAccountIn(data[Arg(2)]).amount)
        /\ IsSum(TokenAccountIn(data[Arg(2)]).amount, TokenAccountIn(before[Arg(2)]).amount,
                 CallIx.amount)
        /\ OthersUnchanged

BurnEffect ==
    (TokenCall("Burn") /\ result = "Ok") =>
        /\ TokenAccountBecomes(Arg(1), TokenAccountIn(data[Arg(1)]).amount)
        /\ IsSum(TokenAccountIn(before[Arg(1)]).amount, TokenAccountIn(data[Arg(1)]).amount,
                 CallIx.amount)
        /\ MintBecomes(Arg(2), MintIn(data[Arg(2)]).supply)
        /\ IsSum(MintIn(before[Arg(2)]).supply, MintIn(data[Arg(2)]).supply, CallIx.amount)
        /\ OthersUnchanged

\* the supply of a Mint changes in a successful MintTo or Burn on it only
SupplyChangesByMintToAndBurn ==
    (Returned /\ call.program = "token") =>
        \A id \in AccountIds :
            (/\ HoldsMint(before[id])
             /\ MintIn(before[id]).is_initialized
             /\ MintIn(data[id]).supply # MintIn(before[id]).supply)
            => /\ result = "Ok"
               /\ \/ TokenCall("MintTo") /\ Arg(1) = id
                  \/ TokenCall("Burn") /\ Arg(2) = id

\* the same MintTo submitted again succeeds and adds the amount once more,
\* unless the second addition overflows
MintToTwice ==
    (TokenCall("MintTo") /\ result = "Ok") =>
        LET again == process_instruction(TokenProgramId, data, call.accounts,
                                         call.instruction_data)
            twice == checked_add(MintIn(data[Arg(1)]).supply, CallIx.amount)
        IN  IF twice.some /\ checked_add(TokenAccountIn(data[Arg(2)]).amount, CallIx.amount).some
            THEN /\ again.result = "Ok"
                 /\ MintIn(again.data[Arg(1)]).supply = twice.val
                 /\ IsSum(TokenAccountIn(again.data[Arg(2)]).amount,
                          TokenAccountIn(data[Arg(2)]).amount, CallIx.amount)
            ELSE again.result = "InvalidArgument" /\ again.data = data

\* C22: the effects of the successful MintTo, Transfer and Burn are the
\* stated ones and nothing else changes
C22_LedgerEffects ==
    /\ MintToEffect
    /\ TransferEffectOnLedger
    /\ BurnEffect
    /\ SupplyChangesByMintToAndBurn
    /\ MintToTwice

\* a Burn of a non-zero amount has succeeded on a source that held more than
\* the amount, leaving tokens in the source and supply in the Mint
C22_Witness ==
    /\ TokenCall("Burn")
    /\ result = "Ok"
    /\ CallIx.amount # U64Zero
    /\ TokenAccountIn(data[Arg(1)]).amount # U64Zero
    /\ TokenAccountIn(data[Arg(1)]).amount # TokenAccountIn(before[Arg(1)]).amount
    /\ MintIn(data[Arg(2)]).supply # MintIn(before[Arg(2)]).supply

\* -------------------------------------------------------------------------
\* C23  In TransferNFT and in UpdateMetadata on a mutable record, the signer
\* check takes priority over the authority-match check: when the presented
\* owner account has not signed, the call fails with
\* MissingRequiredSignature whether or not its key equals the stored
\* creator.
\* -------------------------------------------------------------------------

\* a TransferNFT, or an UpdateMetadata on a mutable record, presented on the
\* NFT slot holding a record by an owner account that has not signed
UnsignedControlCall ==
    /\ ControlCall
    /\ Arg(1) \in NftSlots
    /\ HoldsNft(before[Arg(1)])
    /\ NftCall("UpdateMetadata") => NftIn(before[Arg(1)]).is_mutable
    /\ ~call.accounts[2].is_signer

\* C23: such a call fails with MissingRequiredSignature and changes nothing
C23_SignerBeforeAuthority ==
    UnsignedControlCall => (result = "MissingRequiredSignature" /\ data = before)

\* -------------------------------------------------------------------------
\* The token program with two Mints: both are initialized with supply 0 and
\* alice as authority, and the TokenAccounts tokA and tokB hold amount 0
\* -------------------------------------------------------------------------

MultiMints == {"mint", "mint2"}
MultiTokenAccounts == {"tokA", "tokB"}
MultiSlots == MultiMints \cup MultiTokenAccounts

MultiInitialData ==
    [id \in AccountIds |->
        IF id \in MultiMints
        THEN Mint_pack_into_slice(
                 [is_initialized |-> TRUE, mint_authority |-> KeyOf("alice"),
                  supply |-> U64Zero, decimals |-> 9],
                 Zeroes(MintLEN))
        ELSE InitialData[id]]

InitMulti ==
    /\ data = MultiInitialData
    /\ pc = "idle"
    /\ call = NoCall
    /\ result = "None"
    /\ before = MultiInitialData
    /\ nApplied = 0
    /\ previous_controller = "none"
    /\ codec = NoCodec

MultiAmounts == {U64Of(1), U64Max}

MultiPayloads == {EncodeAmountInstruction(tag, a) : tag \in {1, 2, 3}, a \in MultiAmounts}

MultiAccountLists ==
    {<<Acct(s1, FALSE), Acct(s2, FALSE), Acct(w, TRUE)>> :
        s1 \in MultiSlots, s2 \in MultiSlots, w \in Wallets}

InvokeMulti == \E accounts \in MultiAccountLists, p \in MultiPayloads : Invoke(accounts, p)

NextMulti == InvokeMulti \/ Return

SpecMulti == InitMulti /\ [][NextMulti]_vars

\* -------------------------------------------------------------------------
\* C24  Checked arithmetic: a MintTo whose amount would push mint.supply or
\* destination.amount past 2^64-1, a Transfer that would push
\* destination.amount past 2^64-1, and a Burn whose amount is at most
\* source.amount but greater than mint.supply, each fail with
\* InvalidArgument without writing any record; no stored amount or supply
\* ever wraps around.
\* -------------------------------------------------------------------------
Overflows(a, b) == ~checked_add(a, b).some

MintToOverflow ==
    /\ TokenCall("MintTo")
    /\ HoldsMint(before[Arg(1)])
    /\ HoldsTokenAccount(before[Arg(2)])
    /\ \/ Overflows(MintIn(before[Arg(1)]).supply, CallIx.amount)
       \/ Overflows(TokenAccountIn(before[Arg(2)]).amount, CallIx.amount)

TransferOverflow ==
    /\ TokenCall("Transfer")
    /\ HoldsTokenAccount(before[Arg(1)])
    /\ HoldsTokenAccount(before[Arg(2)])
    /\ checked_sub(TokenAccountIn(before[Arg(1)]).amount, CallIx.amount).some
    /\ Overflows(TokenAccountIn(before[Arg(2)]).amount, CallIx.amount)

BurnBeyondSupply ==
    /\ TokenCall("Burn")
    /\ HoldsTokenAccount(before[Arg(1)])
    /\ HoldsMint(before[Arg(2)])
    /\ checked_sub(TokenAccountIn(before[Arg(1)]).amount, CallIx.amount).some
    /\ ~checked_sub(MintIn(before[Arg(2)]).supply, CallIx.amount).some

OutOfRange == MintToOverflow \/ TransferOverflow \/ BurnBeyondSupply

\* every check the handler makes before its arithmetic passes
ArithmeticReached ==
    IF TokenCall("MintTo")
    THEN /\ SlotsOwned
         /\ Mint_unpack(before[Arg(1)]).err = "Ok"
         /\ KeyOf(Arg(3)) = MintIn(before[Arg(1)]).mint_authority
         /\ TokenAccount_unpack(before[Arg(2)]).err = "Ok"
    ELSE ComparisonReached

\* C24 as stated: an out-of-range MintTo, Transfer or Burn always yields
\* InvalidArgument
C24_AsStated ==
    OutOfRange => (result = "InvalidArgument" /\ data = before)

\* C24 as amended: an out-of-range MintTo, Transfer or Burn fails and writes
\* nothing, it fails with InvalidArgument when the ownership, decoding and
\* authority checks made before the arithmetic pass, and the values a
\* successful MintTo, Transfer or Burn stores are the exact sums and
\* differences (no wrap-around).
C24_CheckedArithmetic ==
    /\ OutOfRange => (result # "Ok" /\ data = before)
    /\ (OutOfRange /\ ArithmeticReached) => result = "InvalidArgument"
    /\ MintToEffect
    /\ TransferEffectOnLedger
    /\ BurnEffect

\* a MintTo by the authority through a Mint with supply 0 into a
\* TokenAccount that holds 2^64-1 tokens of the other Mint has been rejected
C24_Witness ==
    /\ TokenCall("MintTo")
    /\ ArithmeticReached
    /\ MintIn(before[Arg(1)]).supply = U64Zero
    /\ TokenAccountIn(before[Arg(2)]).amount = U64Max
    /\ CallIx.amount = U64Of(1)
    /\ result = "InvalidArgument"
    /\ data = before

\* -------------------------------------------------------------------------
\* C25  After a successful CreateNFT or UpdateMetadata the stored record
\* stays decodable: a following TransferNFT or UpdateMetadata correctly
\* signed by the stored controller is never rejected by a decoding failure,
\* whatever the slot size and the lengths of the written text fields.
\* -------------------------------------------------------------------------

\* the result of the call, made on the buffers as they are now, that the
\* signer of the recorded call signs next: a TransferNFT to bob, or an
\* UpdateMetadata that names nothing
FollowingTransfer ==
    nft_process_instruction(
        NftProgramId, data,
        <<Acct(Arg(1), FALSE), Acct(Arg(2), TRUE), Acct("bob", FALSE)>>,
        EncodeTransferNFT(KeyOf("bob"))).result

FollowingUpdate ==
    nft_process_instruction(
        NftProgramId, data,
        <<Acct(Arg(1), FALSE), Acct(Arg(2), TRUE)>>,
        EncodeUpdateMetadata(None, None, None)).result

\* C25: after a successful CreateNFT or UpdateMetadata the slot decodes, and
\* the controller's next TransferNFT or UpdateMetadata passes the decoding
C25_StaysDecodable ==
    ((NftCall("CreateNFT") \/ NftCall("UpdateMetadata")) /\ result = "Ok") =>
        /\ HoldsNft(data[Arg(1)])
        /\ FollowingTransfer # "BorshIoError"
        /\ FollowingUpdate # "BorshIoError"

\* -------------------------------------------------------------------------
\* C26  With several Mint records and TokenAccounts that carry no reference
\* to any mint, starting from all supplies and amounts zero, after any
\* sequence of MintTo, Transfer and Burn (including a Burn that names a mint
\* other than the one the tokens were minted through, and a Transfer or
\* MintTo whose two accounts are the same slot) the sum of all TokenAccount
\* amounts equals the sum of all Mint supplies, and a call whose two mutable
\* accounts are the same slot changes nothing.
\* -------------------------------------------------------------------------

\* sums of u64 values, exact: five 16-bit limbs, least significant first
WideZero == <<0, 0, 0, 0, 0>>
WideAdd(w, v) ==
    LET s1 == w[1] + v[1]
        s2 == w[2] + v[2] + (s1 \div 65536)
        s3 == w[3] + v[3] + (s2 \div 65536)
        s4 == w[4] + v[4] + (s3 \div 65536)
        s5 == w[5] + (s4 \div 65536)
    IN  <<s1 % 65536, s2 % 65536, s3 % 65536, s4 % 65536, s5>>

RECURSIVE WideTotal(_, _)
WideTotal(values, ids) ==
    IF ids = {} THEN WideZero
    ELSE LET id == CHOOSE x \in ids : TRUE
         IN  WideAdd(WideTotal(values, ids \ {id}), values[id])

AllAmounts == [id \in MultiTokenAccounts |-> TokenAccountIn(data[id]).amount]
AllSupplies == [id \in MultiMints |-> MintIn(data[id]).supply]

SameSlotCall == AmountCall /\ Arg(1) = Arg(2)

\* C26: the amounts of all TokenAccounts add up to the supplies of all
\* Mints, and a call naming one slot as both mutable accounts changes nothing
C26_MultiMintConservation ==
    /\ WideTotal(AllAmounts, MultiTokenAccounts) = WideTotal(AllSupplies, MultiMints)
    /\ SameSlotCall => (result # "Ok" /\ data = before)

\* a Burn has brought the supply of one Mint to zero while the other Mint
\* has supply outstanding and the source keeps tokens
C26_Witness ==
    /\ TokenCall("Burn")
    /\ result = "Ok"
    /\ CallIx.amount # U64Zero
    /\ MintIn(data[Arg(2)]).supply = U64Zero
    /\ \E m \in MultiMints \ {Arg(2)} : MintIn(data[m]).supply # U64Zero
    /\ TokenAccountIn(before[Arg(1)]).amount # CallIx.amount

====
